---- MODULE Spec2Model ----
(***************************************************************************)
(* Document indexing, hybrid retrieval and the OCR queue of the PDF-QA     *)
(* backend (backend/app/routers/documents.py, services/rag_engine.py).     *)
(*                                                                         *)
(* Two specifications share the index operators:                           *)
(*   SpecRag  - the RAGEngine object under its callers' method calls       *)
(*   Spec     - the recognition queue, its worker and the document         *)
(*              registry, driving the same index                           *)
(***************************************************************************)
EXTENDS Integers, Sequences, FiniteSets, TLC

\* ------------------------------------------------------------------ bounds
MaxPages == 2
MaxFrags == 2
MaxTopK == 2
MaxChunks == 3
MaxQueue == 2
MaxLines == 9
MaxExplicit == 2
MaxChunkPages == 3
MaxTasks == 4
MaxTextLines == 2
MaxIndexPages == 3
MaxHfPages == 9

\* ------------------------------------------------------- program constants
rrf_k == 60
k_vector_factor == 10
k_vector_min == 50
candidate_limit_factor == 20
candidate_limit_min == 200
coverage_max_pages == 20
coord_chunk_chars == 320
coord_chunk_max_lines == 8

Docs == {"d1", "d2"}
Pages == 1 .. MaxPages
VALID_OCR_STATUS == {"unrecognized", "processing", "recognized", "failed"}
FragKinds == {"txt", "low"}
NoBlock == 0
NoneVal == "None"

VARIABLES
  collection,        \* rag_engine.collection: the set of indexed chunk records
  bm25_cache,        \* rag_engine.bm25_cache: doc -> NoCache | the chunk ids it was built from
  retrieved,         \* outcome of the recorded retrieve call (NoRetrieve before it)
  documents,         \* documents: doc -> NoDoc | in-memory record
  store,             \* document_store index: doc -> NoMeta | persisted meta
  ocr_payload,       \* document_store OCR payload: doc -> pages with a non-empty result
  files,             \* docs whose PDF file exists on disk
  issued,            \* doc ids handed out by upload so far
  ocr_queue,         \* ocr_queue: FIFO of OCRQueueJob
  ocr_jobs_by_doc,   \* ocr_jobs_by_doc: doc -> pending page set (absent = {})
  ocr_cancel_flags,  \* ocr_cancel_flags
  worker,            \* the run_ocr_worker task: its position and locals
  last,              \* outcome of the latest request handler / recognition call
  document_locks,    \* document_locks: doc -> NoneVal | the call holding the asyncio.Lock
  calls,             \* recognize_document_page calls of SpecCalls: position and locals
  ocr_worker_task,   \* ocr_worker_task: NoTask | the task it refers to
  tasks,             \* tasks created by asyncio.create_task(run_ocr_worker()): their state
  stops              \* stop_ocr_worker calls: position and the task awaited

ragVars == <<collection, bm25_cache, retrieved>>
regVars == <<documents, store, ocr_payload, files, issued>>
queueVars == <<ocr_queue, ocr_jobs_by_doc, ocr_cancel_flags, worker, last>>
procVars == <<document_locks, calls, ocr_worker_task, tasks, stops>>
vars == <<collection, bm25_cache, retrieved, documents, store, ocr_payload, files,
          issued, ocr_queue, ocr_jobs_by_doc, ocr_cancel_flags, worker, last,
          document_locks, calls, ocr_worker_task, tasks, stops>>

\* ----------------------------------------------------------------- helpers
Max(a, b) == IF a >= b THEN a ELSE b
Min(a, b) == IF a <= b THEN a ELSE b

SetMin(S) == CHOOSE x \in S : \A y \in S : x <= y

RECURSIVE SortedSeq(_)
\* sorted(set): ascending list of a finite set of integers
SortedSeq(S) == IF S = {} THEN <<>> ELSE <<SetMin(S)>> \o SortedSeq(S \ {SetMin(S)})

SeqToSet(s) == {s[i] : i \in 1 .. Len(s)}
Take(s, n) == SubSeq(s, 1, Min(n, Len(s)))
InjSeqs(S, n) == {f \in [1 .. n -> S] : \A i, j \in 1 .. n : i # j => f[i] # f[j]}
Contains(s, x) == \E i \in 1 .. Len(s) : s[i] = x
IndexOf(s, x) == CHOOSE i \in 1 .. Len(s) : s[i] = x

\* --------------------------------------------------------------- RAGEngine
\* Chunk ids: f"{doc_id}_{block_id}" and f"{doc_id}_p{page_number}_ocr{idx}"
BlockChunkId(doc, n) == [doc |-> doc, tag |-> "b", page |-> 0, n |-> n]
OcrChunkId(doc, page, idx) == [doc |-> doc, tag |-> "ocr", page |-> page, n |-> idx]

DocChunks(coll, doc) == {c \in coll : c.doc_id = doc}
DocIds(coll, doc) == {c.id : c \in DocChunks(coll, doc)}

\* chromadb collection.add: records are keyed by id; an id already present is kept
CollectionAdd(coll, recs) == coll \cup {r \in recs : \A c \in coll : c.id # r.id}

\* _is_low_value_text on a chunk's text class
IsLowValueText(kind) == kind # "txt"

\* index_document: one chunk per native page, numbered by the global counter
RECURSIVE IndexDocumentChunks(_, _, _)
IndexDocumentChunks(doc, pageSeq, global_chunk_count) ==
  IF pageSeq = <<>> THEN {}
  ELSE LET block_id == global_chunk_count + 1
       IN {[id |-> BlockChunkId(doc, block_id), doc_id |-> doc, page |-> Head(pageSeq),
            source |-> "native", block_id |-> block_id, kind |-> "txt"]}
          \cup IndexDocumentChunks(doc, Tail(pageSeq), block_id)

\* index_ocr_result: the records it adds (blank texts are skipped, idx still counts)
IndexOcrChunks(doc, page, frags) ==
  {[id |-> OcrChunkId(doc, page, i - 1), doc_id |-> doc, page |-> page,
    source |-> "ocr", block_id |-> NoBlock, kind |-> frags[i]]
     : i \in {j \in 1 .. Len(frags) : frags[j] # "blank"}}

\* an absent bm25_cache entry, and `del self.bm25_cache[doc_id]`
NoCache == [cached |-> FALSE, ids |-> {}]
InvalidateBm25(cache, doc) == [cache EXCEPT ![doc] = NoCache]

\* _ensure_bm25_index: build the entry from the collection when it is absent
EnsureBm25(cache, coll, doc) ==
  IF cache[doc].cached THEN cache
  ELSE [cache EXCEPT ![doc] = [cached |-> TRUE, ids |-> DocIds(coll, doc)]]

\* _clear_page_ocr_chunks: collection.delete(where doc_id, page, source = "ocr")
ClearPageOcrChunks(coll, doc, page) ==
  {c \in coll : ~(c.doc_id = doc /\ c.page = page /\ c.source = "ocr")}

\* ------------------------------------------------------------ retrieve
k_vector(top_k) == Max(top_k * k_vector_factor, k_vector_min)
candidate_limit(top_k) == Max(top_k * candidate_limit_factor, candidate_limit_min)

\* 1 / (rrf_k + rank + 1) as a fraction <<num, den>>; rank is 0-based (position - 1)
RankTerm(s, id) == IF Contains(s, id) THEN rrf_k + (IndexOf(s, id) - 1) + 1 ELSE 0

\* FusedScore that keeps the better of the two list terms instead of their sum
FusedScoreBestTerm(vec, bm, id) ==
  LET a == RankTerm(vec, id)
      b == RankTerm(bm, id)
  IN IF a > 0 /\ b > 0 THEN <<1, Min(a, b)>>
     ELSE IF a > 0 THEN <<1, a>>
     ELSE IF b > 0 THEN <<1, b>>
     ELSE <<0, 1>>

\* final_scores[chunk_id]: the sum of the terms of the lists the id appears in, <<num, den>>
FusedScore(vec, bm, id) ==
  LET a == RankTerm(vec, id)
      b == RankTerm(bm, id)
  IN IF a > 0 /\ b > 0 THEN <<a + b, a * b>>
     ELSE IF a > 0 THEN <<1, a>>
     ELSE IF b > 0 THEN <<1, b>>
     ELSE <<0, 1>>

ScoreGreater(x, y) == x[1] * y[2] > y[1] * x[2]
ScoreEqual(x, y) == x[1] * y[2] = y[1] * x[2]

\* final_scores keys in insertion order: vector ids, then lexical ids not seen yet
RECURSIVE DropSeen(_, _)
DropSeen(s, seen) ==
  IF s = <<>> THEN <<>>
  ELSE IF Head(s) \in seen THEN DropSeen(Tail(s), seen)
  ELSE <<Head(s)>> \o DropSeen(Tail(s), seen)

FusionKeys(vec, bm) == vec \o DropSeen(bm, SeqToSet(vec))

\* sorted(keys, key=score, reverse=True): stable, ties keep insertion order
RECURSIVE InsertByScore(_, _, _, _)
InsertByScore(sorted, id, vec, bm) ==
  IF sorted = <<>> THEN <<id>>
  ELSE IF ScoreGreater(FusedScore(vec, bm, id), FusedScore(vec, bm, Head(sorted)))
       THEN <<id>> \o sorted
       ELSE <<Head(sorted)>> \o InsertByScore(Tail(sorted), id, vec, bm)

RECURSIVE SortByScore(_, _, _, _)
SortByScore(keys, n, vec, bm) ==
  IF n = 0 THEN <<>>
  ELSE InsertByScore(SortByScore(keys, n - 1, vec, bm), keys[n], vec, bm)

CandidateIds(vec, bm, top_k) ==
  LET keys == FusionKeys(vec, bm)
  IN Take(SortByScore(keys, Len(keys), vec, bm), candidate_limit(top_k))

ChunkOf(coll, id) == CHOOSE c \in coll : c.id = id

\* PageAllowed without the page test
PageAllowedAny(allowed, page) == TRUE

\* the page filter of the candidate loop: `if allowed_page_set and page not in allowed_page_set`
PageAllowed(allowed, page) ==
  \/ allowed.pages = {}
  \/ page \in allowed.pages

\* the candidate loop: ids no longer in the collection, pages outside
\* allowed_pages and low-value texts are skipped
RECURSIVE CandidateChunks(_, _, _)
CandidateChunks(ids, coll, allowed) ==
  IF ids = <<>> THEN <<>>
  ELSE LET id == Head(ids)
           rest == CandidateChunks(Tail(ids), coll, allowed)
       IN IF ~(\E c \in coll : c.id = id) THEN rest
          ELSE LET c == ChunkOf(coll, id)
               IN IF ~PageAllowed(allowed, c.page) THEN rest
                  ELSE IF IsLowValueText(c.kind) THEN rest
                  ELSE <<c>> \o rest

CoverageEnabled(allowed, ensure_page_coverage) ==
  /\ ensure_page_coverage
  /\ allowed.pages # {}
  /\ Cardinality(allowed.pages) <= coverage_max_pages

\* best_by_page: the first candidate of each page
HasPageChunk(cands, page) == \E i \in 1 .. Len(cands) : cands[i].page = page
BestByPage(cands, page) ==
  cands[CHOOSE i \in 1 .. Len(cands) :
          /\ cands[i].page = page
          /\ \A j \in 1 .. i - 1 : cands[j].page # page]

\* first loop of the coverage branch: one chunk per allowed page, ascending
RECURSIVE SelectPerPage(_, _, _, _)
SelectPerPage(pageList, cands, selected, top_k) ==
  IF pageList = <<>> THEN selected
  ELSE IF ~HasPageChunk(cands, Head(pageList))
       THEN SelectPerPage(Tail(pageList), cands, selected, top_k)
       ELSE LET sel == Append(selected, BestByPage(cands, Head(pageList)))
            IN IF Len(sel) >= top_k THEN sel
               ELSE SelectPerPage(Tail(pageList), cands, sel, top_k)

\* FillFromRanking without `if chunk.id in selected_ids: continue`
RECURSIVE FillFromRankingNoSkip(_, _, _)
FillFromRankingNoSkip(cands, selected, top_k) ==
  IF cands = <<>> THEN selected
  ELSE LET sel == Append(selected, Head(cands))
       IN IF Len(sel) >= top_k THEN sel
          ELSE FillFromRankingNoSkip(Tail(cands), sel, top_k)

\* second loop: fill the remaining slots from the global ranking
RECURSIVE FillFromRanking(_, _, _)
FillFromRanking(cands, selected, top_k) ==
  IF cands = <<>> THEN selected
  ELSE IF \E i \in 1 .. Len(selected) : selected[i].id = Head(cands).id
       THEN FillFromRanking(Tail(cands), selected, top_k)
       ELSE LET sel == Append(selected, Head(cands))
            IN IF Len(sel) >= top_k THEN sel
               ELSE FillFromRanking(Tail(cands), sel, top_k)

\* SelectChunks without the coverage branch
SelectChunksNoCoverage(cands, allowed, ensure_page_coverage, top_k) == Take(cands, top_k)

\* retrieve, the final selection: the coverage branch or the plain top_k cut
SelectChunks(cands, allowed, ensure_page_coverage, top_k) ==
  IF CoverageEnabled(allowed, ensure_page_coverage)
  THEN LET perPage == SelectPerPage(SortedSeq(allowed.pages), cands, <<>>, top_k)
           filled == IF Len(perPage) < top_k
                     THEN FillFromRanking(cands, perPage, top_k)
                     ELSE perPage
       IN Take(filled, top_k)
  ELSE Take(cands, top_k)

\* chunk.ref_id = f"ref-{idx + 1}"
WithRefIds(chunks) ==
  [i \in 1 .. Len(chunks) |->
     [id |-> chunks[i].id, page_number |-> chunks[i].page, source_type |-> chunks[i].source,
      block_id |-> chunks[i].block_id, ref_id |-> i]]

\* the value retrieve returns once both indexes have answered
RetrieveResult(coll, vec, bm, top_k, allowed, ensure_page_coverage) ==
  LET cands == CandidateChunks(CandidateIds(vec, bm, top_k), coll, allowed)
  IN WithRefIds(SelectChunks(cands, allowed, ensure_page_coverage, top_k))

\* collection.query(where doc_id, n_results=k_vector): some nearest-first order
VectorResults(coll, doc, top_k) ==
  LET ids == DocIds(coll, doc)
      n == Min(Cardinality(ids), k_vector(top_k))
  IN InjSeqs(ids, n)

\* bm25_top_n: cached ids with a positive score, best first
Bm25Results(cache, doc, top_k) ==
  IF ~cache[doc].cached THEN {<<>>}
  ELSE UNION {InjSeqs(cache[doc].ids, n) :
                n \in 0 .. Min(Cardinality(cache[doc].ids), k_vector(top_k))}

\* allowed_pages: None, or a list whose set of pages is `pages`
AllowedNone == [given |-> FALSE, pages |-> {}]
AllowedList(S) == [given |-> TRUE, pages |-> S]
AllowedChoices == {AllowedNone} \cup {AllowedList(S) : S \in SUBSET Pages}
FragChoices == UNION {[1 .. n -> FragKinds] : n \in 1 .. MaxFrags}

\* `if allowed_pages is not None and not allowed_page_set: return []`
NoAllowedPagesResult == <<>>

NoRetrieve == [called |-> FALSE, doc |-> NoneVal, top_k |-> 0, allowed |-> AllowedNone,
               coverage |-> FALSE, chunks |-> <<>>, queried |-> FALSE,
               vec |-> <<>>, bm |-> <<>>]

\* ------------------------------------------------------- DocumentRegistry
NoDoc == [present |-> FALSE]
NoMeta == [present |-> FALSE]
NoCall == [op |-> NoneVal]
NoJob == [doc_id |-> NoneVal, pages |-> <<>>]

\* _ensure_status_map: fill the pages the map does not hold
EnsureStatusMap(doc) ==
  LET recognized == SeqToSet(doc.recognized_pages)
      required == SeqToSet(doc.ocr_required_pages)
  IN [p \in 1 .. doc.total_pages |->
        IF doc.page_ocr_status[p] \in VALID_OCR_STATUS THEN doc.page_ocr_status[p]
        ELSE IF p \in recognized THEN "recognized"
        ELSE IF required # {} THEN (IF p \in required THEN "unrecognized" ELSE "recognized")
        ELSE "unrecognized"]

\* _compute_recognized_pages: the stored list joined with the pages the map says are recognized
ComputeRecognizedPages(doc) ==
  LET status_map == EnsureStatusMap(doc)
      pages == SeqToSet(doc.recognized_pages)
                 \cup {p \in DOMAIN status_map : status_map[p] = "recognized"}
  IN SortedSeq({p \in pages : 1 <= p /\ p <= doc.total_pages})

\* _compute_unrecognized_pages
ComputeUnrecognizedPages(doc) ==
  LET status_map == EnsureStatusMap(doc)
  IN SortedSeq({p \in 1 .. doc.total_pages : status_map[p] # "recognized"})

\* _sync_ocr_sets
SyncOcrSets(doc) ==
  LET d1 == [doc EXCEPT !.page_ocr_status = EnsureStatusMap(doc)]
      d2 == [d1 EXCEPT !.recognized_pages = ComputeRecognizedPages(d1)]
  IN [d2 EXCEPT !.ocr_required_pages = ComputeUnrecognizedPages(d2)]

\* get_consistent_recognized_pages
GetConsistentRecognizedPages(doc) == SyncOcrSets(doc).recognized_pages

\* the record _persist_doc_meta upserts for a document held in memory
MetaOf(doc, status, existing) ==
  [present |-> TRUE,
   status |-> IF status # NoneVal THEN status
              ELSE IF existing.present THEN existing.status ELSE "completed",
   total_pages |-> doc.total_pages,
   page_ocr_status |-> doc.page_ocr_status,
   recognized_pages |-> doc.recognized_pages,
   ocr_required_pages |-> doc.ocr_required_pages,
   chunk_count |-> doc.chunk_count,
   keep_pdf |-> doc.keep_pdf,
   pdf_path |-> IF doc.keep_pdf /\ doc.file_path THEN TRUE
                ELSE IF existing.present THEN existing.pdf_path ELSE FALSE]

\* PersistDocMeta without the upsert into the store
PersistDocMetaMemoryOnly(docs, st, d, status) ==
  IF ~docs[d].present THEN <<docs, st>>
  ELSE <<[docs EXCEPT ![d] = SyncOcrSets(docs[d])], st>>

\* _persist_doc_meta(doc_id, status): syncs the derived sets of the in-memory
\* record and upserts it; nothing happens when the document is not in memory.
\* Yields the pair <<documents, store>> after the call.
PersistDocMeta(docs, st, d, status) ==
  IF ~docs[d].present THEN <<docs, st>>
  ELSE LET doc == SyncOcrSets(docs[d])
       IN <<[docs EXCEPT ![d] = doc], [st EXCEPT ![d] = MetaOf(doc, status, st[d])]>>

\* status_map[page_num] = status; doc["page_ocr_status"] = status_map
SetPageStatus(doc, page, status) ==
  [doc EXCEPT !.page_ocr_status = [EnsureStatusMap(doc) EXCEPT ![page] = status]]

\* _load_doc_meta_into_memory: the in-memory record hydrated from persisted
\* metadata; its "pages" list is empty, so no page has a PageContent (page_type None)
LoadDocMeta(meta, payloadPages) ==
  LET recognized == SeqToSet(meta.recognized_pages) \cup payloadPages
      required_from_meta == SeqToSet(meta.ocr_required_pages)
      status_map == [p \in 1 .. meta.total_pages |->
                       IF meta.page_ocr_status[p] \in VALID_OCR_STATUS
                       THEN meta.page_ocr_status[p]
                       ELSE IF p \in recognized THEN "recognized"
                       ELSE IF required_from_meta # {}
                            THEN (IF p \in required_from_meta THEN "unrecognized"
                                  ELSE "recognized")
                       ELSE "unrecognized"]
  IN SyncOcrSets([present |-> TRUE,
                  total_pages |-> meta.total_pages,
                  page_ocr_status |-> status_map,
                  recognized_pages |-> SortedSeq(recognized),
                  ocr_required_pages |-> SortedSeq(required_from_meta),
                  file_path |-> meta.pdf_path,
                  keep_pdf |-> meta.keep_pdf,
                  chunk_count |-> meta.chunk_count,
                  page_type |-> [p \in 1 .. meta.total_pages |-> NoneVal],
                  baidu |-> FALSE])

\* ensure_document_loaded: TRUE when the document is (now) in memory
CanLoad(docs, st, d) ==
  docs[d].present \/ (st[d].present /\ st[d].status \in {"completed", "processing"})

EnsureLoaded(docs, st, payload, d) ==
  IF docs[d].present \/ ~CanLoad(docs, st, d) THEN docs
  ELSE [docs EXCEPT ![d] = LoadDocMeta(st[d], payload[d])]

\* `file_path and os.path.exists(file_path)`
HasReadablePdf(doc, d, onDisk) == doc.file_path /\ d \in onDisk

\* ------------------------------------------------- the registry at start-up
NoWorker == [pc |-> "wait", job |-> NoJob, idx |-> 0, frags |-> <<>>,
             provider |-> NoneVal, result |-> NoneVal, auth_failed |-> FALSE]

InitRegistry ==
  /\ documents = [d \in Docs |-> NoDoc]
  /\ store = [d \in Docs |-> NoMeta]
  /\ ocr_payload = [d \in Docs |-> {}]
  /\ files = {}
  /\ issued = {}
  /\ ocr_queue = <<>>
  /\ ocr_jobs_by_doc = [d \in Docs |-> {}]
  /\ ocr_cancel_flags = {}
  /\ worker = NoWorker
  /\ last = NoCall

InitIndex ==
  /\ collection = {}
  /\ bm25_cache = [d \in Docs |-> NoCache]
  /\ retrieved = NoRetrieve

\* concurrent recognize_document_page calls, worker tasks and stop_ocr_worker calls
Callers == {"c1", "c2"}
TaskIds == 1 .. MaxTasks
StopCallers == {"s1", "s2"}
NoTask == 0
NoCallState == [pc |-> "idle", doc_id |-> NoneVal, page |-> 0, result |-> NoneVal,
                provider_calls |-> 0, index_writes |-> 0]
NoStop == [pc |-> "idle", task |-> NoTask]

\* module state at import: no lock, no worker task (documents.py 54, document_locks)
InitProc ==
  /\ document_locks = [d \in Docs |-> NoneVal]
  /\ calls = [c \in Callers |-> NoCallState]
  /\ ocr_worker_task = NoTask
  /\ tasks = [t \in TaskIds |-> "none"]
  /\ stops = [s \in StopCallers |-> NoStop]

\* ------------------------------------------ SpecRag: RAGEngine method calls
\* rag_engine.index_document(doc_id, pages): called once per upload
RagIndexDocument(doc, native) ==
  /\ ~retrieved.called
  /\ DocChunks(collection, doc) = {}
  /\ native # {}
  /\ collection' = CollectionAdd(collection, IndexDocumentChunks(doc, SortedSeq(native), 0))
  /\ Cardinality(collection') <= MaxChunks
  /\ bm25_cache' = InvalidateBm25(bm25_cache, doc)
  /\ UNCHANGED <<retrieved, regVars, queueVars>>
  /\ UNCHANGED procVars

\* rag_engine.index_ocr_result(doc_id, page_number, chunks)
RagIndexOcrResult(doc, page, frags) ==
  /\ ~retrieved.called
  /\ collection' = CollectionAdd(collection, IndexOcrChunks(doc, page, frags))
  /\ Cardinality(collection') <= MaxChunks
  /\ UNCHANGED <<bm25_cache, retrieved, regVars, queueVars>>
  /\ UNCHANGED procVars

\* documents._clear_page_ocr_chunks(doc_id, page_num)
RagClearPage(doc, page) ==
  /\ ~retrieved.called
  /\ collection' = ClearPageOcrChunks(collection, doc, page)
  /\ collection' # collection
  /\ UNCHANGED <<bm25_cache, retrieved, regVars, queueVars>>
  /\ UNCHANGED procVars

\* rag_engine.delete_document(doc_id)
RagDeleteDocument(doc) ==
  /\ ~retrieved.called
  /\ DocChunks(collection, doc) # {} \/ bm25_cache[doc].cached
  /\ collection' = collection \ DocChunks(collection, doc)
  /\ bm25_cache' = InvalidateBm25(bm25_cache, doc)
  /\ UNCHANGED <<retrieved, regVars, queueVars>>
  /\ UNCHANGED procVars

\* rag_engine.retrieve(...) as its callers' state sees it: the lexical cache is built
RetrieveCall(doc) ==
  /\ ~retrieved.called
  /\ bm25_cache' = EnsureBm25(bm25_cache, collection, doc)
  /\ UNCHANGED <<collection, retrieved, regVars, queueVars>>
  /\ UNCHANGED procVars

\* rag_engine.retrieve(query, doc_id, top_k, allowed_pages, ensure_page_coverage)
Retrieve(doc, top_k, allowed, ensure_page_coverage) ==
  /\ ~retrieved.called
  /\ IF allowed.given /\ allowed.pages = {}
     THEN /\ retrieved' = [called |-> TRUE, doc |-> doc, top_k |-> top_k,
                           allowed |-> allowed, coverage |-> ensure_page_coverage,
                           chunks |-> NoAllowedPagesResult, queried |-> FALSE,
                           vec |-> <<>>, bm |-> <<>>]
          /\ UNCHANGED <<collection, bm25_cache>>
     ELSE \E vec \in VectorResults(collection, doc, top_k) :
            LET cache == EnsureBm25(bm25_cache, collection, doc)
            IN \E bm \in Bm25Results(cache, doc, top_k) :
                 /\ retrieved' = [called |-> TRUE, doc |-> doc, top_k |-> top_k,
                                  allowed |-> allowed, coverage |-> ensure_page_coverage,
                                  chunks |-> RetrieveResult(collection, vec, bm, top_k,
                                                            allowed, ensure_page_coverage),
                                  queried |-> TRUE, vec |-> vec, bm |-> bm]
                 /\ bm25_cache' = cache
                 /\ UNCHANGED collection
  /\ UNCHANGED <<regVars, queueVars>>
  /\ UNCHANGED procVars

\* the document whose OCR pages and retrievals SpecRag explores; the other one is only
\* indexed and deleted, to exercise the doc_id filters
RagDocs == {"d1"}

InitRag == InitIndex /\ InitRegistry /\ InitProc

\* The retrieve call whose outcome is recorded is the last call of a behaviour;
\* the calls before it are arbitrary.
NextRag ==
  \/ \E doc \in Docs, native \in SUBSET Pages : RagIndexDocument(doc, native)
  \/ \E doc \in RagDocs, page \in Pages, frags \in FragChoices :
       RagIndexOcrResult(doc, page, frags)
  \/ \E doc \in RagDocs, page \in Pages : RagClearPage(doc, page)
  \/ \E doc \in Docs : RagDeleteDocument(doc)
  \/ \E doc \in RagDocs : RetrieveCall(doc)
  \/ \E doc \in RagDocs, top_k \in 1 .. MaxTopK, allowed \in AllowedChoices,
        ensure_page_coverage \in BOOLEAN :
       Retrieve(doc, top_k, allowed, ensure_page_coverage)

SpecRag == InitRag /\ [][NextRag]_vars

\* ------------------------------------ Spec: the recognition queue and worker
\* doc ids the upload endpoint hands out: a new file gets a fresh uuid4; the
\* re-upload of a file whose record is not yet completed (same sha256, same
\* doc_id) is not part of this model
UploadIds == {"d1"}
\* page lists a caller may pass to enqueue_ocr_job (one page beyond the document)
RequestChoices == SUBSET (1 .. MaxPages + 1)
\* what a provider call can yield when it yields anything: both gateways drop the
\* fragments whose text is blank before they return, so a non-empty result holds text
PrimaryOutputs == {<<"txt">>}
LocalOutputs == {<<"txt">>}

\* points at which the worker coroutine is suspended and request handlers can run
Quiescent == {"wait", "primary_io", "local_io", "embed_io"}

\* the worker's next position after a job: ocr_queue.get() returns at once when a job waits
NextPc(queue) == IF queue = <<>> THEN "wait" ELSE "take"

\* ValidPages without the upper limit
ValidPagesNoUpperLimit(pages, total_pages) == {page \in pages : 1 <= page}

\* `valid_pages = [page for page in requested if 1 <= page <= total_pages]`
ValidPages(pages, total_pages) == {page \in pages : 1 <= page /\ page <= total_pages}

\* status_map.get(page, "unrecognized")
StatusOf(status_map, page) ==
  IF page \in DOMAIN status_map THEN status_map[page] ELSE "unrecognized"

\* QueuedPages without its `if page in pending: continue`
QueuedPagesNoPending(status_map, pending, valid_pages) ==
  SortedSeq({page \in valid_pages :
               StatusOf(status_map, page) \notin {"recognized", "processing"}})

\* enqueue_ocr_job, the loop over valid_pages: the pages that are newly queued
QueuedPages(status_map, pending, valid_pages) ==
  SortedSeq({page \in valid_pages :
               /\ StatusOf(status_map, page) \notin {"recognized", "processing"}
               /\ page \notin pending})

\* QueueGet that hands out the job queued last
QueueGetLast(queue) == <<queue[Len(queue)], SubSeq(queue, 1, Len(queue) - 1)>>

\* ocr_queue.get() on a non-empty asyncio.Queue: the oldest job, and the queue without it
QueueGet(queue) == <<Head(queue), Tail(queue)>>

\* PopPending that leaves the pending set in place
PopPendingKeeps(jobs, d) == jobs

\* PopPending that clears the whole registry of pending pages
PopPendingClearsAll(jobs, d) == [e \in DOMAIN jobs |-> {}]

\* cancel_doc_ocr / delete_document: ocr_jobs_by_doc.pop(doc_id, None)
PopPending(jobs, d) == [jobs EXCEPT ![d] = {}]

\* RecognizeGate without the early return for a recognized page
RecognizeGateRerun(current_status) ==
  IF current_status = "processing" THEN "processing" ELSE "run"

\* RecognizeGate without the early return for a page in processing
RecognizeGateNoProcessing(current_status) ==
  IF current_status = "recognized" THEN "already_recognized" ELSE "run"

\* recognize_document_page, the two early returns on the page's current status
RecognizeGate(current_status) ==
  IF current_status = "recognized" THEN "already_recognized"
  ELSE IF current_status = "processing" THEN "processing"
  ELSE "run"

\* _release_queued_pages
ReleaseQueuedPages(jobs, d, pages) == [jobs EXCEPT ![d] = @ \ pages]

\* _cleanup_temp_pdf_if_needed: yields <<documents, store, files>>
CleanupTempPdf(docs, st, fl, d) ==
  IF ~docs[d].present THEN <<docs, st, fl>>
  ELSE IF docs[d].keep_pdf THEN <<docs, st, fl>>
  ELSE LET docs1 == [docs EXCEPT ![d].file_path = FALSE]
           st1 == IF st[d].present
                  THEN [st EXCEPT ![d].keep_pdf = FALSE, ![d].pdf_path = FALSE]
                  ELSE st
           persisted == PersistDocMeta(docs1, st1, d,
                                       IF st1[d].present THEN st1[d].status ELSE "completed")
       IN <<persisted[1], persisted[2], fl \ {d}>>

\* _finalize_doc_after_ocr_queue: yields <<documents, store, files>>
FinalizeDoc(docs, st, fl, jobs, d) ==
  IF jobs[d] # {} THEN <<docs, st, fl>> ELSE CleanupTempPdf(docs, st, fl, d)

\* MarkFailed that puts the page back to "unrecognized" instead of "failed"
MarkFailedResets(doc, page) == SetPageStatus(doc, page, "unrecognized")

\* the except handlers of recognize_document_page: failed unless already recognized
MarkFailed(doc, page) ==
  IF EnsureStatusMap(doc)[page] # "recognized" THEN SetPageStatus(doc, page, "failed")
  ELSE [doc EXCEPT !.page_ocr_status = EnsureStatusMap(doc)]

\* process_document_async: parse, register, index the native pages, and in full
\* mode queue the pages that need recognition (enqueue_ocr_job drops the cancel
\* flag as soon as one page is valid, also when it queues nothing)
ProcessDocumentAsync(d, required, ocr_mode, keep_pdf, baidu) ==
  LET effective_keep_pdf == keep_pdf \/ ocr_mode = "manual"
      native == Pages \ required
      chunks == IndexDocumentChunks(d, SortedSeq(native), 0)
      doc == SyncOcrSets([present |-> TRUE,
                          total_pages |-> MaxPages,
                          page_ocr_status |->
                            [p \in Pages |-> IF p \in required THEN "unrecognized"
                                             ELSE "recognized"],
                          recognized_pages |-> SortedSeq(native),
                          ocr_required_pages |-> SortedSeq(required),
                          file_path |-> TRUE,
                          keep_pdf |-> effective_keep_pdf,
                          chunk_count |-> Cardinality(chunks),
                          page_type |-> [p \in Pages |-> IF p \in required THEN "ocr"
                                                         ELSE "native"],
                          baidu |-> baidu])
      docs1 == [documents EXCEPT ![d] = doc]
      st1 == [store EXCEPT ![d] = [MetaOf(doc, "processing", NoMeta)
                                     EXCEPT !.pdf_path = effective_keep_pdf]]
      fl1 == files \cup {d}
      queued == IF ocr_mode = "full"
                THEN QueuedPages(doc.page_ocr_status, ocr_jobs_by_doc[d], required)
                ELSE <<>>
  IN /\ collection' = CollectionAdd(collection, chunks)
     /\ bm25_cache' = InvalidateBm25(bm25_cache, d)
     /\ ocr_cancel_flags' = IF ocr_mode = "full" /\ required # {}
                            THEN ocr_cancel_flags \ {d} ELSE ocr_cancel_flags
     /\ IF queued # <<>>
        THEN /\ ocr_jobs_by_doc' = [ocr_jobs_by_doc EXCEPT ![d] = @ \cup SeqToSet(queued)]
             /\ ocr_queue' = Append(ocr_queue, [doc_id |-> d, pages |-> queued])
             /\ documents' = PersistDocMeta(docs1, st1, d, "processing")[1]
             /\ store' = PersistDocMeta(docs1, st1, d, "processing")[2]
             /\ files' = fl1
        ELSE LET persisted == PersistDocMeta(docs1, st1, d, "completed")
                 cleaned == IF effective_keep_pdf
                            THEN <<persisted[1], persisted[2], fl1>>
                            ELSE CleanupTempPdf(persisted[1], persisted[2], fl1, d)
             IN /\ documents' = cleaned[1]
                /\ store' = cleaned[2]
                /\ files' = cleaned[3]
                /\ UNCHANGED <<ocr_jobs_by_doc, ocr_queue>>

\* upload_document of content not seen before (a fresh doc_id), with the
\* background task it schedules
Upload(d, required, ocr_mode, keep_pdf, baidu) ==
  /\ worker.pc \in Quiescent
  /\ d \notin issued
  /\ (ocr_mode = "full" /\ required # {}) => Len(ocr_queue) < MaxQueue
  /\ issued' = issued \cup {d}
  /\ ProcessDocumentAsync(d, required, ocr_mode, keep_pdf, baidu)
  /\ last' = NoCall
  /\ UNCHANGED <<retrieved, ocr_payload, worker>>
  /\ UNCHANGED procVars

\* the pages of a stored document that have no native text: index_document
\* wrote one native chunk for every other page, and the same bytes parse the same
SameContentRequired(coll, d) ==
  Pages \ {c.page : c \in {x \in DocChunks(coll, d) : x.source = "native"}}

\* upload_document of content whose sha256 is that of the stored document d:
\* a "completed" record answers from the cache; any other record has its doc_id
\* reused and process_document_async scheduled again for it
UploadAgain(d, ocr_mode, keep_pdf) ==
  /\ worker.pc \in Quiescent
  /\ d \in issued
  /\ store[d].present
  /\ Len(ocr_queue) < MaxQueue
  /\ IF store[d].status = "completed"
     THEN /\ documents' = LET docs1 == EnsureLoaded(documents, store, ocr_payload, d)
                          IN [docs1 EXCEPT ![d] = IF @.present THEN SyncOcrSets(@) ELSE @]
          /\ last' = [op |-> "upload", doc |-> d, existing |-> store[d].status,
                      status |-> "completed", scheduled |-> FALSE]
          /\ UNCHANGED <<collection, bm25_cache, ocr_cancel_flags, ocr_jobs_by_doc,
                         ocr_queue, store, files>>
     ELSE /\ ProcessDocumentAsync(d, SameContentRequired(collection, d), ocr_mode,
                                  keep_pdf, FALSE)
          /\ last' = [op |-> "upload", doc |-> d, existing |-> store[d].status,
                      status |-> "processing", scheduled |-> TRUE]
  /\ UNCHANGED <<retrieved, ocr_payload, issued, worker>>
  /\ UNCHANGED procVars

\* enqueue_ocr_job(doc_id, pages)
EnqueueOcrJob(d, pages) ==
  /\ worker.pc \in Quiescent
  /\ Len(ocr_queue) < MaxQueue
  /\ LET docs1 == EnsureLoaded(documents, store, ocr_payload, d)
         \* the handler's answer, with what the call before it was: the same
         \* request again, or a cancel of the same document (and what it dropped)
         answer(code, returned) ==
           [op |-> "enqueue", doc |-> d, requested |-> pages, code |-> code,
            returned |-> returned,
            repeat |-> /\ last.op = "enqueue" /\ last.doc = d
                       /\ last.requested = pages /\ last.code = 200,
            canceled |-> IF last.op = "cancel" /\ last.doc = d /\ last.code = 200
                         THEN last.pending_pages ELSE {}]
     IN IF ~CanLoad(documents, store, d)
        THEN /\ last' = answer(404, <<>>)
             /\ UNCHANGED <<documents, ocr_cancel_flags, ocr_jobs_by_doc, ocr_queue>>
        ELSE IF ~HasReadablePdf(docs1[d], d, files)
        THEN /\ last' = answer(400, <<>>)
             /\ documents' = docs1
             /\ UNCHANGED <<ocr_cancel_flags, ocr_jobs_by_doc, ocr_queue>>
        ELSE LET valid_pages == ValidPages(pages, docs1[d].total_pages)
                 status_map == EnsureStatusMap(docs1[d])
                 queued_pages == QueuedPages(status_map, ocr_jobs_by_doc[d], valid_pages)
             IN IF valid_pages = {}
                THEN /\ last' = answer(200, <<>>)
                     /\ documents' = docs1
                     /\ UNCHANGED <<ocr_cancel_flags, ocr_jobs_by_doc, ocr_queue>>
                ELSE /\ ocr_cancel_flags' = ocr_cancel_flags \ {d}
                     /\ ocr_jobs_by_doc' =
                          [ocr_jobs_by_doc EXCEPT ![d] = @ \cup SeqToSet(queued_pages)]
                     /\ documents' = [docs1 EXCEPT ![d].page_ocr_status = status_map]
                     /\ ocr_queue' = IF queued_pages # <<>>
                                     THEN Append(ocr_queue,
                                                 [doc_id |-> d, pages |-> queued_pages])
                                     ELSE ocr_queue
                     /\ last' = answer(200, queued_pages)
  /\ UNCHANGED <<ragVars, store, ocr_payload, files, issued, worker>>
  /\ UNCHANGED procVars

\* cancel_doc_ocr(doc_id)
CancelDocOcr(d) ==
  /\ worker.pc \in Quiescent
  /\ IF ~CanLoad(documents, store, d)
     THEN /\ last' = [op |-> "cancel", doc |-> d, code |-> 404, pending_pages |-> {}]
          /\ UNCHANGED <<documents, ocr_cancel_flags, ocr_jobs_by_doc>>
     ELSE /\ documents' = EnsureLoaded(documents, store, ocr_payload, d)
          /\ ocr_cancel_flags' = ocr_cancel_flags \cup {d}
          /\ ocr_jobs_by_doc' = PopPending(ocr_jobs_by_doc, d)
          /\ last' = [op |-> "cancel", doc |-> d, code |-> 200,
                      pending_pages |-> ocr_jobs_by_doc[d]]
  /\ UNCHANGED <<ragVars, store, ocr_payload, files, issued, ocr_queue, worker>>
  /\ UNCHANGED procVars

\* delete_document(doc_id)
DeleteDocument(d) ==
  /\ worker.pc \in Quiescent
  /\ ocr_cancel_flags' = ocr_cancel_flags \cup {d}
  /\ ocr_jobs_by_doc' = PopPending(ocr_jobs_by_doc, d)
  /\ files' = files \ {d}
  /\ collection' = collection \ DocChunks(collection, d)
  /\ bm25_cache' = InvalidateBm25(bm25_cache, d)
  /\ store' = [store EXCEPT ![d] = NoMeta]
  /\ ocr_payload' = [ocr_payload EXCEPT ![d] = {}]
  /\ documents' = [documents EXCEPT ![d] = NoDoc]
  /\ last' = [op |-> "delete", doc |-> d]
  /\ UNCHANGED <<retrieved, issued, ocr_queue, worker>>
  /\ UNCHANGED procVars

\* what ocr_gateway.process_image can return: nothing (no API key, or a failed
\* call) or a text fragment
OcrGatewayOutputs == {<<>>, <<"txt">>}

\* routers/ocr.py ocr_page(doc_id, page_num): the on-demand OCR of one page.  It
\* indexes what the gateway returned and marks the page's PageContent native; the
\* page's status is not touched.  Its 404/400 answers change nothing.
OcrPage(d, page_num, frags) ==
  /\ worker.pc \in Quiescent
  /\ documents[d].present
  /\ 1 <= page_num /\ page_num <= documents[d].total_pages
  /\ documents[d].page_type[page_num] = "ocr"
  /\ HasReadablePdf(documents[d], d, files)
  /\ collection' = CollectionAdd(collection, IndexOcrChunks(d, page_num, frags))
  /\ documents' = [documents EXCEPT ![d].page_type[page_num] = "native"]
  /\ last' = NoCall
  /\ UNCHANGED <<bm25_cache, retrieved, store, ocr_payload, files, issued, ocr_queue,
                 ocr_jobs_by_doc, ocr_cancel_flags, worker>>
  /\ UNCHANGED procVars

\* The process stops and starts again: everything held in memory is gone, the
\* store, the OCR payloads, the files and the chroma collection stay, and
\* load_persisted_documents hydrates the documents whose status is "completed".
Restart ==
  /\ issued # {}
  /\ documents' = [d \in Docs |->
                     IF store[d].present /\ store[d].status = "completed"
                     THEN LoadDocMeta(store[d], ocr_payload[d]) ELSE NoDoc]
  /\ bm25_cache' = [d \in Docs |-> NoCache]
  /\ ocr_queue' = <<>>
  /\ ocr_jobs_by_doc' = [d \in Docs |-> {}]
  /\ ocr_cancel_flags' = {}
  /\ worker' = NoWorker
  /\ last' = [op |-> "restart"]
  /\ UNCHANGED <<collection, retrieved, store, ocr_payload, files, issued>>
  /\ UNCHANGED procVars

\* ------------------------------------------------------------ run_ocr_worker
\* the page the worker's loop is at
CurrentPage == worker.job.pages[worker.idx]

\* the `finally` of the page loop: the page is released and the loop moves on
PageDone(jobs, result) ==
  /\ ocr_jobs_by_doc' = ReleaseQueuedPages(jobs, worker.job.doc_id, {CurrentPage})
  /\ worker' = [worker EXCEPT !.pc = "page", !.idx = @ + 1, !.frags = <<>>,
                              !.provider = NoneVal, !.result = result]

\* PageFailed with the exception leaving run_ocr_worker: the loop ends
PageFailedEndsWorker(docs, st) ==
  /\ UNCHANGED <<documents, store, ocr_jobs_by_doc>>
  /\ worker' = [worker EXCEPT !.pc = "ended", !.result = "failed"]

\* a failure inside the try block of recognize_document_page: the page is marked
\* failed (unless recognized), the record persisted, and the exception counted by the worker
PageFailed(docs, st) ==
  LET d == worker.job.doc_id
      docs1 == IF docs[d].present
               THEN [docs EXCEPT ![d] = SyncOcrSets(MarkFailed(docs[d], CurrentPage))]
               ELSE docs
      persisted == PersistDocMeta(docs1, st, d, "completed")
  IN /\ documents' = persisted[1]
     /\ store' = persisted[2]
     /\ PageDone(ocr_jobs_by_doc, "failed")

\* job = await ocr_queue.get(), up to the page loop
WorkerGet ==
  /\ worker.pc \in {"wait", "take"}
  /\ ocr_queue # <<>>
  /\ LET job == QueueGet(ocr_queue)[1]
         d == job.doc_id
         pages == SeqToSet(job.pages)
         released == ReleaseQueuedPages(ocr_jobs_by_doc, d, pages)
         docs1 == EnsureLoaded(documents, store, ocr_payload, d)
     IN /\ ocr_queue' = QueueGet(ocr_queue)[2]
        /\ IF ~CanLoad(documents, store, d)
           THEN /\ ocr_jobs_by_doc' = released
                /\ worker' = [NoWorker EXCEPT !.pc = NextPc(ocr_queue')]
                /\ UNCHANGED <<documents, store, files>>
           ELSE IF d \in ocr_cancel_flags
           THEN LET final == FinalizeDoc(docs1, store, files, released, d)
                IN /\ ocr_jobs_by_doc' = released
                   /\ documents' = final[1]
                   /\ store' = final[2]
                   /\ files' = final[3]
                   /\ worker' = [NoWorker EXCEPT !.pc = NextPc(ocr_queue')]
           ELSE /\ worker' = [NoWorker EXCEPT !.pc = "page", !.job = job, !.idx = 1]
                /\ documents' = docs1
                /\ UNCHANGED <<ocr_jobs_by_doc, store, files>>
  /\ last' = NoCall
  /\ UNCHANGED <<ragVars, ocr_payload, issued, ocr_cancel_flags>>
  /\ UNCHANGED procVars

\* the page loop is exhausted: sync, persist "completed", finalize when nothing is pending
JobDone ==
  /\ worker.pc = "page"
  /\ worker.idx > Len(worker.job.pages)
  /\ LET d == worker.job.doc_id
         persisted == PersistDocMeta(documents, store, d, "completed")
         final == FinalizeDoc(persisted[1], persisted[2], files, ocr_jobs_by_doc, d)
     IN /\ documents' = final[1]
        /\ store' = final[2]
        /\ files' = final[3]
  /\ worker' = [NoWorker EXCEPT !.pc = NextPc(ocr_queue)]
  /\ last' = NoCall
  /\ UNCHANGED <<ragVars, ocr_payload, issued, ocr_queue, ocr_jobs_by_doc, ocr_cancel_flags>>
  /\ UNCHANGED procVars

\* `if doc_id in ocr_cancel_flags: canceled = True; break` and the canceled branch
JobCanceled ==
  /\ worker.pc = "page"
  /\ worker.idx <= Len(worker.job.pages)
  /\ worker.job.doc_id \in ocr_cancel_flags
  /\ LET d == worker.job.doc_id
         processed_pages == {worker.job.pages[i] : i \in 1 .. worker.idx - 1}
         remaining == SeqToSet(worker.job.pages) \ processed_pages
         released == ReleaseQueuedPages(ocr_jobs_by_doc, d, remaining)
         final == FinalizeDoc(documents, store, files, released, d)
     IN /\ ocr_jobs_by_doc' = released
        /\ documents' = final[1]
        /\ store' = final[2]
        /\ files' = final[3]
  /\ worker' = [NoWorker EXCEPT !.pc = NextPc(ocr_queue)]
  /\ last' = NoCall
  /\ UNCHANGED <<ragVars, ocr_payload, issued, ocr_queue, ocr_cancel_flags>>
  /\ UNCHANGED procVars

\* recognize_document_page, the first section under the page lock: the checks,
\* the early returns, and the "processing" mark with its persist
RecognizeStart ==
  /\ worker.pc = "page"
  /\ worker.idx <= Len(worker.job.pages)
  /\ worker.job.doc_id \notin ocr_cancel_flags
  /\ LET d == worker.job.doc_id
         docs1 == EnsureLoaded(documents, store, ocr_payload, d)
     IN IF ~CanLoad(documents, store, d)
        THEN /\ PageDone(ocr_jobs_by_doc, "not_found")
             /\ UNCHANGED <<documents, store>>
        ELSE IF CurrentPage < 1 \/ CurrentPage > docs1[d].total_pages
        THEN /\ PageDone(ocr_jobs_by_doc, "out_of_range")
             /\ documents' = docs1
             /\ UNCHANGED store
        ELSE LET status_map == EnsureStatusMap(docs1[d])
                 gate == RecognizeGate(status_map[CurrentPage])
                 checked == [docs1 EXCEPT ![d].page_ocr_status = status_map]
             IN IF gate # "run"
                THEN /\ PageDone(ocr_jobs_by_doc, gate)
                     /\ documents' = checked
                     /\ UNCHANGED store
                ELSE IF ~HasReadablePdf(docs1[d], d, files)
                THEN /\ PageDone(ocr_jobs_by_doc, "no_pdf")
                     /\ documents' = checked
                     /\ UNCHANGED store
                ELSE LET marked == [checked EXCEPT ![d] =
                                      SyncOcrSets(SetPageStatus(@, CurrentPage, "processing"))]
                         persisted == PersistDocMeta(marked, store, d, "completed")
                     IN /\ documents' = persisted[1]
                        /\ store' = persisted[2]
                        /\ worker' = [worker EXCEPT !.pc = "render", !.result = NoneVal]
                        /\ UNCHANGED ocr_jobs_by_doc
  /\ last' = NoCall
  /\ UNCHANGED <<ragVars, ocr_payload, files, issued, ocr_queue, ocr_cancel_flags>>
  /\ UNCHANGED procVars

\* _run_ocr with the primary provider never tried
FirstProviderLocalOnly(baidu) == "local_io"

\* _run_ocr: `if baidu_ocr_url and baidu_ocr_token` chooses the provider called first
FirstProvider(baidu) == IF baidu THEN "primary_io" ELSE "local_io"

\* _extract_page_image_and_size, then _run_ocr up to its first provider call
RenderPage(render_ok) ==
  /\ worker.pc = "render"
  /\ IF ~render_ok
     THEN PageFailed(documents, store)
     ELSE /\ worker' = [worker EXCEPT
                          !.pc = FirstProvider(documents[worker.job.doc_id].baidu)]
          /\ UNCHANGED <<documents, store, ocr_jobs_by_doc>>
  /\ last' = NoCall
  /\ UNCHANGED <<ragVars, ocr_payload, files, issued, ocr_queue, ocr_cancel_flags>>
  /\ UNCHANGED procVars

\* after _run_ocr returned chunks: clear the page's OCR chunks and start indexing;
\* index_ocr_result returns 0 without suspending when every text is blank
AfterOcr(frags, provider) ==
  /\ collection' = ClearPageOcrChunks(collection, worker.job.doc_id, CurrentPage)
  /\ IF IndexOcrChunks(worker.job.doc_id, CurrentPage, frags) = {}
     THEN PageFailed(documents, store)
     ELSE /\ worker' = [worker EXCEPT !.pc = "embed_io", !.frags = frags,
                                      !.provider = provider]
          /\ UNCHANGED <<documents, store, ocr_jobs_by_doc>>

\* baidu_ocr_gateway.process_image returns: every failure, an authentication
\* failure included, comes back as an empty list and _run_ocr goes on to the local provider
PrimaryReturn(outcome, frags) ==
  /\ worker.pc = "primary_io"
  /\ IF outcome = "chunks"
     THEN AfterOcr(frags, "baidu")
     ELSE /\ worker' = [worker EXCEPT !.pc = "local_io",
                                      !.auth_failed = @ \/ outcome = "auth_error"]
          /\ UNCHANGED <<collection, documents, store, ocr_jobs_by_doc>>
  /\ last' = NoCall
  /\ UNCHANGED <<bm25_cache, retrieved, ocr_payload, files, issued, ocr_queue,
                 ocr_cancel_flags>>
  /\ UNCHANGED procVars

\* local_ocr_gateway.process_image returns or raises
LocalReturn(outcome, frags) ==
  /\ worker.pc = "local_io"
  /\ IF outcome = "chunks"
     THEN AfterOcr(frags, "local")
     ELSE /\ PageFailed(documents, store)
          /\ UNCHANGED collection
  /\ last' = NoCall
  /\ UNCHANGED <<bm25_cache, retrieved, ocr_payload, files, issued, ocr_queue,
                 ocr_cancel_flags>>
  /\ UNCHANGED procVars

\* index_ocr_result after _get_embeddings, then the commit under the page lock
EmbedReturn(ok) ==
  /\ worker.pc = "embed_io"
  /\ LET d == worker.job.doc_id
         recs == IndexOcrChunks(d, CurrentPage, worker.frags)
     IN IF ~ok
        THEN /\ PageFailed(documents, store)
             /\ UNCHANGED <<collection, ocr_payload>>
        ELSE /\ collection' = CollectionAdd(collection, recs)
             /\ IF ~documents[d].present
                THEN /\ PageDone(ocr_jobs_by_doc, "not_found")
                     /\ UNCHANGED <<documents, store, ocr_payload>>
                ELSE LET marked == SetPageStatus(documents[d], CurrentPage, "recognized")
                         counted == [marked EXCEPT !.chunk_count = @ + Cardinality(recs)]
                         typed == [counted EXCEPT !.page_type[CurrentPage] =
                                     IF @ = NoneVal THEN @ ELSE "ocr"]
                         docs1 == [documents EXCEPT ![d] = SyncOcrSets(typed)]
                         persisted == PersistDocMeta(docs1, store, d, "completed")
                     IN /\ documents' = persisted[1]
                        /\ store' = persisted[2]
                        /\ ocr_payload' = [ocr_payload EXCEPT ![d] = @ \cup {CurrentPage}]
                        /\ PageDone(ocr_jobs_by_doc, "recognized")
  /\ last' = NoCall
  /\ UNCHANGED <<bm25_cache, retrieved, files, issued, ocr_queue, ocr_cancel_flags>>
  /\ UNCHANGED procVars

Init == InitIndex /\ InitRegistry /\ InitProc

Next ==
  \/ \E d \in UploadIds, required \in SUBSET Pages, ocr_mode \in {"manual", "full"},
        keep_pdf \in BOOLEAN, baidu \in BOOLEAN :
       Upload(d, required, ocr_mode, keep_pdf, baidu)
  \/ \E d \in UploadIds, pages \in RequestChoices : EnqueueOcrJob(d, pages)
  \/ \E d \in UploadIds : CancelDocOcr(d)
  \/ \E d \in UploadIds : DeleteDocument(d)
  \/ WorkerGet
  \/ JobDone
  \/ JobCanceled
  \/ RecognizeStart
  \/ \E render_ok \in BOOLEAN : RenderPage(render_ok)
  \/ \E outcome \in {"auth_error", "error", "chunks"}, frags \in PrimaryOutputs :
       PrimaryReturn(outcome, frags)
  \/ \E outcome \in {"raise", "empty", "chunks"}, frags \in LocalOutputs :
       LocalReturn(outcome, frags)
  \/ \E ok \in BOOLEAN : EmbedReturn(ok)

Spec == Init /\ [][Next]_vars

\* ------------- SpecOps: the same program with the on-demand OCR endpoint and restarts
\* documents are uploaded without a Baidu configuration, so _run_ocr goes to the
\* local provider at once
NextOps ==
  \/ \E d \in UploadIds, required \in SUBSET Pages, ocr_mode \in {"manual", "full"},
        keep_pdf \in BOOLEAN :
       Upload(d, required, ocr_mode, keep_pdf, FALSE)
  \/ \E d \in UploadIds, pages \in RequestChoices : EnqueueOcrJob(d, pages)
  \/ \E d \in UploadIds : CancelDocOcr(d)
  \/ \E d \in UploadIds : DeleteDocument(d)
  \/ \E d \in UploadIds, page_num \in Pages, frags \in OcrGatewayOutputs :
       OcrPage(d, page_num, frags)
  \/ Restart
  \/ WorkerGet
  \/ JobDone
  \/ JobCanceled
  \/ RecognizeStart
  \/ \E render_ok \in BOOLEAN : RenderPage(render_ok)
  \/ \E outcome \in {"raise", "empty", "chunks"}, frags \in LocalOutputs :
       LocalReturn(outcome, frags)
  \/ \E ok \in BOOLEAN : EmbedReturn(ok)

SpecOps == Init /\ [][NextOps]_vars

\* ---- SpecCrash: SpecOps without the on-demand endpoint, with a process that can
\* die inside the commit of a page
\* The commit section of recognize_document_page writes the page's entry of the
\* recognition-result payload (_save_ocr_page_result) and then the metadata
\* (_persist_doc_meta).  Here the process dies between the two writes and starts
\* again: the chunks and the payload entry are on disk, the persisted status map
\* still holds what the first lock section persisted, and
\* load_persisted_documents hydrates the completed documents.
CrashInCommit ==
  /\ worker.pc = "embed_io"
  /\ documents[worker.job.doc_id].present
  /\ LET d == worker.job.doc_id
         recs == IndexOcrChunks(d, CurrentPage, worker.frags)
         payload == [ocr_payload EXCEPT ![d] = @ \cup {CurrentPage}]
     IN /\ collection' = CollectionAdd(collection, recs)
        /\ ocr_payload' = payload
        /\ documents' = [e \in Docs |->
                           IF store[e].present /\ store[e].status = "completed"
                           THEN LoadDocMeta(store[e], payload[e]) ELSE NoDoc]
  /\ bm25_cache' = [d \in Docs |-> NoCache]
  /\ ocr_queue' = <<>>
  /\ ocr_jobs_by_doc' = [d \in Docs |-> {}]
  /\ ocr_cancel_flags' = {}
  /\ worker' = NoWorker
  /\ last' = [op |-> "restart"]
  /\ UNCHANGED <<retrieved, store, files, issued>>
  /\ UNCHANGED procVars

NextCrash ==
  \/ \E d \in UploadIds, required \in SUBSET Pages, ocr_mode \in {"manual", "full"},
        keep_pdf \in BOOLEAN :
       Upload(d, required, ocr_mode, keep_pdf, FALSE)
  \/ \E d \in UploadIds, pages \in RequestChoices : EnqueueOcrJob(d, pages)
  \/ \E d \in UploadIds : CancelDocOcr(d)
  \/ \E d \in UploadIds : DeleteDocument(d)
  \/ Restart
  \/ CrashInCommit
  \/ WorkerGet
  \/ JobDone
  \/ JobCanceled
  \/ RecognizeStart
  \/ \E render_ok \in BOOLEAN : RenderPage(render_ok)
  \/ \E outcome \in {"raise", "empty", "chunks"}, frags \in LocalOutputs :
       LocalReturn(outcome, frags)
  \/ \E ok \in BOOLEAN : EmbedReturn(ok)

SpecCrash == Init /\ [][NextCrash]_vars

\* ---- SpecCalls: concurrent recognize_document_page calls on one document
\* `async with lock:` entered by call c (the lock is free: asyncio.Lock is not reentrant)
AcquireLock(locks, d, c) == [locks EXCEPT ![d] = c]

\* a lock section whose end does not release the lock
ReleaseLockKeeps(locks, d) == locks

\* the end of an `async with lock:` block
ReleaseLock(locks, d) == [locks EXCEPT ![d] = NoneVal]

\* the call has ended with this result
CallDone(c, result) ==
  calls' = [calls EXCEPT ![c].pc = "done", ![c].result = result]

\* the except handlers of recognize_document_page: under the lock the page is
\* marked failed unless recognized, and the record persisted
CallFailed(c) ==
  LET d == calls[c].doc_id
      held == AcquireLock(document_locks, d, c)
      docs1 == IF documents[d].present
               THEN [documents EXCEPT ![d] = SyncOcrSets(MarkFailed(documents[d], calls[c].page))]
               ELSE documents
      persisted == PersistDocMeta(docs1, store, d, "completed")
  IN /\ document_locks[d] = NoneVal
     /\ documents' = persisted[1]
     /\ store' = persisted[2]
     /\ document_locks' = ReleaseLock(held, d)
     /\ CallDone(c, "failed")

\* recognize_document_page(d, page) up to its first await: the load, the first
\* lock section with its early returns and the "processing" mark, the render, and
\* _run_ocr up to the provider call
CallStart(c, d, page, render_ok) ==
  /\ calls[c].pc = "idle"
  /\ CanLoad(documents, store, d) => document_locks[d] = NoneVal
  /\ LET docs1 == EnsureLoaded(documents, store, ocr_payload, d)
         held == AcquireLock(document_locks, d, c)
         begun == [calls EXCEPT ![c] = [NoCallState EXCEPT !.doc_id = d, !.page = page]]
         ended(result) == [begun EXCEPT ![c].pc = "done", ![c].result = result]
     IN IF ~CanLoad(documents, store, d)
        THEN /\ calls' = ended("not_found")
             /\ UNCHANGED <<documents, store, document_locks>>
        ELSE /\ document_locks' = ReleaseLock(held, d)
             /\ IF page < 1 \/ page > docs1[d].total_pages
                THEN /\ calls' = ended("out_of_range")
                     /\ documents' = docs1
                     /\ UNCHANGED store
                ELSE LET status_map == EnsureStatusMap(docs1[d])
                         gate == RecognizeGate(status_map[page])
                         checked == [docs1 EXCEPT ![d].page_ocr_status = status_map]
                     IN IF gate # "run"
                        THEN /\ calls' = ended(gate)
                             /\ documents' = checked
                             /\ UNCHANGED store
                        ELSE IF ~HasReadablePdf(docs1[d], d, files)
                        THEN /\ calls' = ended("no_pdf")
                             /\ documents' = checked
                             /\ UNCHANGED store
                        ELSE LET marked == [checked EXCEPT ![d] =
                                   SyncOcrSets(SetPageStatus(@, page, "processing"))]
                                 begun_io == PersistDocMeta(marked, store, d, "completed")
                                 failed == [begun_io[1] EXCEPT ![d] =
                                              SyncOcrSets(MarkFailed(@, page))]
                                 persisted == IF render_ok THEN begun_io
                                              ELSE PersistDocMeta(failed, begun_io[2], d,
                                                                  "completed")
                             IN /\ documents' = persisted[1]
                                /\ store' = persisted[2]
                                /\ calls' = IF render_ok
                                            THEN [begun EXCEPT ![c].pc = "ocr_io",
                                                               ![c].provider_calls = 1]
                                            ELSE ended("failed")
  /\ UNCHANGED <<ragVars, ocr_payload, files, issued, queueVars, ocr_worker_task,
                 tasks, stops>>

\* the provider call returns or raises; with chunks the page's OCR chunks are
\* cleared and index_ocr_result runs up to its await of the embeddings
CallOcrReturn(c, outcome) ==
  /\ calls[c].pc = "ocr_io"
  /\ IF outcome = "chunks"
     THEN /\ collection' = ClearPageOcrChunks(collection, calls[c].doc_id, calls[c].page)
          /\ calls' = [calls EXCEPT ![c].pc = "embed_io", ![c].index_writes = @ + 1]
          /\ UNCHANGED <<documents, store, document_locks>>
     ELSE /\ CallFailed(c)
          /\ UNCHANGED collection
  /\ UNCHANGED <<bm25_cache, retrieved, ocr_payload, files, issued, queueVars,
                 ocr_worker_task, tasks, stops>>

\* _get_embeddings returns or raises; collection.add, then the commit section
CallEmbedReturn(c, ok) ==
  /\ calls[c].pc = "embed_io"
  /\ LET d == calls[c].doc_id
         page == calls[c].page
         recs == IndexOcrChunks(d, page, <<"txt">>)
         held == AcquireLock(document_locks, d, c)
     IN IF ~ok
        THEN /\ CallFailed(c)
             /\ UNCHANGED <<collection, ocr_payload>>
        ELSE /\ document_locks[d] = NoneVal
             /\ document_locks' = ReleaseLock(held, d)
             /\ collection' = CollectionAdd(collection, recs)
             /\ IF ~documents[d].present
                THEN /\ calls' = [calls EXCEPT ![c].pc = "done", ![c].result = "not_found",
                                               ![c].index_writes = @ + 1]
                     /\ UNCHANGED <<documents, store, ocr_payload>>
                ELSE LET marked == SetPageStatus(documents[d], page, "recognized")
                         counted == [marked EXCEPT !.chunk_count = @ + Cardinality(recs)]
                         typed == [counted EXCEPT !.page_type[page] =
                                     IF @ = NoneVal THEN @ ELSE "ocr"]
                         docs1 == [documents EXCEPT ![d] = SyncOcrSets(typed)]
                         persisted == PersistDocMeta(docs1, store, d, "completed")
                     IN /\ documents' = persisted[1]
                        /\ store' = persisted[2]
                        /\ ocr_payload' = [ocr_payload EXCEPT ![d] = @ \cup {page}]
                        /\ calls' = [calls EXCEPT ![c].pc = "done",
                                                  ![c].result = "recognized",
                                                  ![c].index_writes = @ + 1]
  /\ UNCHANGED <<bm25_cache, retrieved, files, issued, queueVars, ocr_worker_task,
                 tasks, stops>>

\* the caller has its response or exception and may call again
CallReturn(c) ==
  /\ calls[c].pc = "done"
  /\ calls' = [calls EXCEPT ![c] = NoCallState]
  /\ UNCHANGED <<ragVars, regVars, queueVars, document_locks, ocr_worker_task, tasks,
                 stops>>

NextCalls ==
  \/ \E required \in SUBSET Pages, keep_pdf \in BOOLEAN :
       Upload("d1", required, "manual", keep_pdf, FALSE)
  \/ DeleteDocument("d1")
  \/ \E c \in Callers, page \in 1 .. MaxPages + 1, render_ok \in BOOLEAN :
       CallStart(c, "d1", page, render_ok)
  \/ \E c \in Callers, outcome \in {"raise", "chunks"} : CallOcrReturn(c, outcome)
  \/ \E c \in Callers, ok \in BOOLEAN : CallEmbedReturn(c, ok)
  \/ \E c \in Callers : CallReturn(c)

SpecCalls == Init /\ [][NextCalls]_vars

\* ---- SpecTasks: start_ocr_worker and stop_ocr_worker calls and the worker tasks
\* tasks that have not finished
LiveTasks == {t \in TaskIds : tasks[t] \in {"running", "cancelling"}}

\* start_ocr_worker(), from lifespan or from the first line of enqueue_ocr_job:
\* a task is created when ocr_worker_task is None or done
StartOcrWorker ==
  /\ \E t \in TaskIds : tasks[t] = "none"
  /\ IF ocr_worker_task = NoTask \/ tasks[ocr_worker_task] = "done"
     THEN LET t == CHOOSE t \in TaskIds :
                     tasks[t] = "none" /\ \A u \in TaskIds : tasks[u] = "none" => t <= u
          IN /\ tasks' = [tasks EXCEPT ![t] = "running"]
             /\ ocr_worker_task' = t
     ELSE UNCHANGED <<tasks, ocr_worker_task>>
  /\ UNCHANGED <<ragVars, regVars, queueVars, document_locks, calls, stops>>

\* stop_ocr_worker() up to `await ocr_worker_task`: nothing without a task;
\* cancel() is requested; awaiting a finished task does not suspend
StopBegin(s) ==
  /\ stops[s].pc = "idle"
  /\ IF ocr_worker_task = NoTask
     THEN UNCHANGED <<tasks, ocr_worker_task, stops>>
     ELSE IF tasks[ocr_worker_task] = "done"
     THEN /\ ocr_worker_task' = NoTask
          /\ UNCHANGED <<tasks, stops>>
     ELSE /\ tasks' = [tasks EXCEPT ![ocr_worker_task] = "cancelling"]
          /\ stops' = [stops EXCEPT ![s] = [pc |-> "awaiting", task |-> ocr_worker_task]]
          /\ UNCHANGED ocr_worker_task
  /\ UNCHANGED <<ragVars, regVars, queueVars, document_locks, calls>>

\* the cancelled task is resumed with CancelledError, which run_ocr_worker re-raises
TaskEnds(t) ==
  /\ tasks[t] = "cancelling"
  /\ tasks' = [tasks EXCEPT ![t] = "done"]
  /\ UNCHANGED <<ragVars, regVars, queueVars, document_locks, calls, ocr_worker_task,
                 stops>>

\* stop_ocr_worker resumed after the awaited task finished: `finally: ocr_worker_task = None`
StopResume(s) ==
  /\ stops[s].pc = "awaiting"
  /\ tasks[stops[s].task] = "done"
  /\ ocr_worker_task' = NoTask
  /\ stops' = [stops EXCEPT ![s] = NoStop]
  /\ UNCHANGED <<ragVars, regVars, queueVars, document_locks, calls, tasks>>

NextTasks ==
  \/ StartOcrWorker
  \/ \E s \in StopCallers : StopBegin(s)
  \/ \E t \in TaskIds : TaskEnds(t)
  \/ \E s \in StopCallers : StopResume(s)

SpecTasks == Init /\ [][NextTasks]_vars

\* ----- SpecFair: two documents, local provider only, the worker scheduled fairly
\* d1 is the document whose recognition is cancelled or that is deleted under the
\* worker; OtherDoc is the document whose jobs wait behind it.  Both keep their PDF.
FailingDoc == "d1"
OtherDoc == "d2"
\* page lists of the requests made in this specification
FairRequests == {Pages}

\* one step of the run_ocr_worker task
WorkerStep ==
  \/ WorkerGet
  \/ JobDone
  \/ JobCanceled
  \/ RecognizeStart
  \/ \E render_ok \in BOOLEAN : RenderPage(render_ok)
  \/ \E outcome \in {"raise", "chunks"}, frags \in LocalOutputs :
       LocalReturn(outcome, frags)
  \/ \E ok \in BOOLEAN : EmbedReturn(ok)

NextFair ==
  \/ \E d \in Docs : Upload(d, Pages, "manual", TRUE, FALSE)
  \/ \E d \in Docs, pages \in FairRequests : EnqueueOcrJob(d, pages)
  \/ CancelDocOcr(FailingDoc)
  \/ DeleteDocument(FailingDoc)
  \/ WorkerGet
  \/ JobDone
  \/ JobCanceled
  \/ RecognizeStart
  \/ \E render_ok \in BOOLEAN : RenderPage(render_ok)
  \/ \E outcome \in {"raise", "chunks"}, frags \in LocalOutputs :
       LocalReturn(outcome, frags)
  \/ \E ok \in BOOLEAN : EmbedReturn(ok)

\* the worker task has a step to take: it is inside a job, or a job waits for it
WorkerCanRun ==
  \/ worker.pc \in {"page", "render", "local_io", "embed_io"}
  \/ worker.pc \in {"wait", "take"} /\ ocr_queue # <<>>

\* Weak fairness of the worker task, WF_vars(WorkerStep), with
\* ENABLED <<WorkerStep>>_vars written out as WorkerCanRun: the event loop resumes
\* the worker whenever it can run, and every call it awaits returns or raises
WorkerFair == ([]<>(~WorkerCanRun)) \/ ([]<><<WorkerStep>>_vars)

SpecFair == Init /\ [][NextFair]_vars /\ WorkerFair

\* ---- SpecRestartFair: the steps of SpecCrash with the worker scheduled fairly.
\* The worker task is created again by start_ocr_worker after every start of the
\* process, so the fairness of SpecFair holds across a restart; the fairness of
\* the queue read alone is stated a second time in its usual form
\* `await ocr_queue.get()` returning: the worker waits and a job is queued
QueueRead ==
  /\ worker.pc \in {"wait", "take"}
  /\ ocr_queue # <<>>
  /\ ocr_queue' = QueueGet(ocr_queue)[2]

SpecRestartFair == Init /\ [][NextCrash]_vars /\ WorkerFair /\ WF_ocr_queue(QueueRead)

\* ---- SpecSettleFair: one process that is never restarted: uploads in both OCR
\* modes, the queue handlers and the worker, scheduled fairly
NextSettle ==
  \/ \E d \in UploadIds, required \in SUBSET Pages, ocr_mode \in {"manual", "full"},
        keep_pdf \in BOOLEAN :
       Upload(d, required, ocr_mode, keep_pdf, FALSE)
  \/ \E d \in UploadIds, pages \in RequestChoices : EnqueueOcrJob(d, pages)
  \/ \E d \in UploadIds : CancelDocOcr(d)
  \/ \E d \in UploadIds : DeleteDocument(d)
  \/ WorkerGet
  \/ JobDone
  \/ JobCanceled
  \/ RecognizeStart
  \/ \E render_ok \in BOOLEAN : RenderPage(render_ok)
  \/ \E outcome \in {"raise", "empty", "chunks"}, frags \in LocalOutputs :
       LocalReturn(outcome, frags)
  \/ \E ok \in BOOLEAN : EmbedReturn(ok)

SpecSettleFair == Init /\ [][NextSettle]_vars /\ WorkerFair /\ WF_ocr_queue(QueueRead)

\* ---- SpecUpload: the steps of SpecSettleFair and uploads of content already stored
NextUpload ==
  \/ \E d \in UploadIds, required \in SUBSET Pages, ocr_mode \in {"manual", "full"},
        keep_pdf \in BOOLEAN :
       Upload(d, required, ocr_mode, keep_pdf, FALSE)
  \/ \E d \in UploadIds, ocr_mode \in {"manual", "full"}, keep_pdf \in BOOLEAN :
       UploadAgain(d, ocr_mode, keep_pdf)
  \/ \E d \in UploadIds, pages \in RequestChoices : EnqueueOcrJob(d, pages)
  \/ \E d \in UploadIds : CancelDocOcr(d)
  \/ \E d \in UploadIds : DeleteDocument(d)
  \/ WorkerGet
  \/ JobDone
  \/ JobCanceled
  \/ RecognizeStart
  \/ \E render_ok \in BOOLEAN : RenderPage(render_ok)
  \/ \E outcome \in {"raise", "empty", "chunks"}, frags \in LocalOutputs :
       LocalReturn(outcome, frags)
  \/ \E ok \in BOOLEAN : EmbedReturn(ok)

SpecUpload == Init /\ [][NextUpload]_vars

\* ------------------------------- SpecPure: the pure functions, on drawn inputs
\* index_document, the geometry path of one page.  A surviving line (stripped,
\* non-empty, not low-value, not a repeated header) is its number of characters;
\* a chunk is the list of the lines merged into it, so that its text
\* "\n".join(current_texts) has the lines' characters plus one per join.
RECURSIVE SumLens(_)
SumLens(texts) == IF texts = <<>> THEN 0 ELSE Head(texts) + SumLens(Tail(texts))

\* len("\n".join(current_texts).strip()) for stripped, non-empty lines
ChunkTextLen(texts) == SumLens(texts) + Max(Len(texts) - 1, 0)

\* NeedsFlush without the character test
NeedsFlushByLinesOnly(current_texts, text) == Len(current_texts) >= coord_chunk_max_lines

\* `if next_len > coord_chunk_chars or len(current_texts) >= coord_chunk_max_lines`
NeedsFlush(current_texts, text) ==
  LET current_len == SumLens(current_texts) + Max(Len(current_texts) - 1, 0)
      next_len == current_len + 1 + text
  IN next_len > coord_chunk_chars \/ Len(current_texts) >= coord_chunk_max_lines

\* flush_current: the running chunk is emitted when it holds a line (its
\* low-value and cross-page duplicate tests can only withhold a chunk)
FlushCurrent(all_chunks, current_texts) ==
  IF current_texts = <<>> THEN all_chunks ELSE Append(all_chunks, current_texts)

\* the loop over entries and the final flush_current()
RECURSIVE MergeEntries(_, _, _)
MergeEntries(entries, current_texts, all_chunks) ==
  IF entries = <<>> THEN FlushCurrent(all_chunks, current_texts)
  ELSE LET text == Head(entries)
       IN IF current_texts = <<>>
          THEN MergeEntries(Tail(entries), <<text>>, all_chunks)
          ELSE IF NeedsFlush(current_texts, text)
          THEN MergeEntries(Tail(entries), <<text>>, FlushCurrent(all_chunks, current_texts))
          ELSE MergeEntries(Tail(entries), Append(current_texts, text), all_chunks)

\* ------------- SpecIndex: index_document with line provenance, then index_ocr_result
\* A line of page.text is one of five texts: the empty line, a noise fragment, a
\* short line in two spellings that differ in case only, and a long line.
LineTexts == {"", "x", "h", "H", "L"}

\* len(text) of a stripped line
TextLen(text) ==
  IF text = "" THEN 0 ELSE IF text = "x" THEN 1 ELSE IF text = "L" THEN 200 ELSE 10

\* _is_low_value_text on a line
IsLowValueLine(text) == text \in {"", "x"}

\* _normalize_for_dedup on a line: lower case, blanks collapsed, punctuation dropped
NormalizeForDedup(text) == IF text = "H" THEN "h" ELSE text

\* _normalize_for_dedup on "\n".join(texts): the normalized lines, one blank between them
NormalizeChunk(texts) == [i \in 1 .. Len(texts) |-> NormalizeForDedup(texts[i])]
RECURSIVE NormalizedLen(_)
NormalizedLen(texts) ==
  IF texts = <<>> THEN 0
  ELSE TextLen(NormalizeForDedup(Head(texts))) + (IF Len(texts) > 1 THEN 1 ELSE 0)
         + NormalizedLen(Tail(texts))

\* [ln.strip() for ln in text.split("\n") if ln.strip()]
RECURSIVE NonEmptyLines(_)
NonEmptyLines(text_lines) ==
  IF text_lines = <<>> THEN <<>>
  ELSE IF Head(text_lines) = "" THEN NonEmptyLines(Tail(text_lines))
  ELSE <<Head(text_lines)>> \o NonEmptyLines(Tail(text_lines))

\* sample = lines[:3], extended by lines[-3:] when there are more than 3 lines
SampleLines(lines) ==
  IF Len(lines) > 3
  THEN SubSeq(lines, 1, 3) \o SubSeq(lines, Len(lines) - 2, Len(lines))
  ELSE lines

\* the keys one page contributes to page_freq
PageSeenKeys(page) ==
  LET sample == SampleLines(NonEmptyLines(page.text_lines))
  IN {NormalizeForDedup(sample[i]) :
        i \in {j \in 1 .. Len(sample) :
                 /\ ~IsLowValueLine(sample[j])
                 /\ TextLen(NormalizeForDedup(sample[j])) >= 6}}

\* threshold = max(3, int(len(pages) * 0.35)); int() truncates, and for fewer
\* than 180 pages the float product truncates to the integer quotient
RepeatThreshold(n) == Max(3, (n * 35) \div 100)

\* _collect_header_footer_repeat_keys(pages)
CollectHeaderFooterRepeatKeys(pages) ==
  IF Len(pages) < 3 THEN {}
  ELSE LET keys == UNION {PageSeenKeys(pages[i]) : i \in 1 .. Len(pages)}
           page_freq(k) == Cardinality({i \in 1 .. Len(pages) : k \in PageSeenKeys(pages[i])})
       IN {k \in keys : page_freq(k) >= RepeatThreshold(Len(pages))}

\* Boxes are <<x, y, w, h>> records in thirds of a point, so that the estimated
\* box of a line without coordinates is exact for up to three lines.
Box(x, y, w, h) == [x |-> x, y |-> y, w |-> w, h |-> h]

\* the box of line idx (0-based): page.coordinates[idx], or the estimate
\* (50, (1 - idx / len(text_lines)) * 700, 500, 30) when the list is too short
LineBox(page, idx) ==
  IF idx < Len(page.coordinates) THEN page.coordinates[idx + 1]
  ELSE Box(150, (2100 * (Len(page.text_lines) - idx)) \div Len(page.text_lines), 1500, 90)

\* the entries of a page: the lines that survive the noise and header/footer filters
RECURSIVE PageEntries(_, _, _)
PageEntries(page, idx, repeat_keys) ==
  IF idx >= Len(page.text_lines) THEN <<>>
  ELSE LET text == page.text_lines[idx + 1]
           rest == PageEntries(page, idx + 1, repeat_keys)
       IN IF text = "" \/ IsLowValueLine(text) THEN rest
          ELSE IF NormalizeForDedup(text) \in repeat_keys THEN rest
          ELSE <<[text |-> text, box |-> LineBox(page, idx)]>> \o rest

\* current_bbox as (x0, y0, x1, y1) of one line
Corners(box) == [x0 |-> box.x, y0 |-> box.y, x1 |-> box.x + box.w, y1 |-> box.y + box.h]

\* the envelope left at the first line's box
ExtendBboxKeepsFirst(current_bbox, box) == current_bbox

\* (min(cx0, x0), min(cy0, y0), max(cx1, x1), max(cy1, y1))
ExtendBbox(current_bbox, box) ==
  LET b == Corners(box)
  IN [x0 |-> Min(current_bbox.x0, b.x0), y0 |-> Min(current_bbox.y0, b.y0),
      x1 |-> Max(current_bbox.x1, b.x1), y1 |-> Max(current_bbox.y1, b.y1)]

\* the running chunk of the entry loop: current_texts, current_bbox, current_line_bboxes
NoCurrent == [texts |-> <<>>, bbox |-> Corners(Box(0, 0, 0, 0)), line_bboxes |-> <<>>]
StartCurrent(entry) ==
  [texts |-> <<entry.text>>, bbox |-> Corners(entry.box), line_bboxes |-> <<entry.box>>]

\* index_document's accumulators: the records it will add, seen_cross_page_chunks
\* and global_chunk_count
NoAcc == [chunks |-> {}, seen |-> {}, count |-> 0]

\* flush_current(): the running chunk becomes a record unless it is empty or its
\* normalized text, 80 characters or longer, was emitted before in this call
FlushProvenance(acc, cur, doc, page) ==
  IF cur.texts = <<>> THEN acc
  ELSE LET dedup_key == NormalizeChunk(cur.texts)
           long == NormalizedLen(cur.texts) >= 80
       IN IF long /\ dedup_key \in acc.seen THEN acc
          ELSE LET block_id == acc.count + 1
                   rec == [id |-> BlockChunkId(doc, block_id), doc_id |-> doc,
                           page |-> page.page_number, source |-> "native",
                           block_id |-> block_id, texts |-> cur.texts,
                           bbox |-> Box(cur.bbox.x0, cur.bbox.y0,
                                        cur.bbox.x1 - cur.bbox.x0,
                                        cur.bbox.y1 - cur.bbox.y0),
                           line_bboxes |-> cur.line_bboxes]
               IN [chunks |-> acc.chunks \cup {rec},
                   seen |-> IF long THEN acc.seen \cup {dedup_key} ELSE acc.seen,
                   count |-> block_id]

\* `next_len > coord_chunk_chars or len(current_texts) >= coord_chunk_max_lines`
\* on the running chunk's texts
RECURSIVE TextLens(_)
TextLens(texts) ==
  IF texts = <<>> THEN <<>> ELSE <<TextLen(Head(texts))>> \o TextLens(Tail(texts))

\* the loop over a page's entries and the final flush_current()
RECURSIVE MergeProvenance(_, _, _, _, _)
MergeProvenance(entries, cur, acc, doc, page) ==
  IF entries = <<>> THEN FlushProvenance(acc, cur, doc, page)
  ELSE LET entry == Head(entries)
       IN IF cur.texts = <<>>
          THEN MergeProvenance(Tail(entries), StartCurrent(entry), acc, doc, page)
          ELSE IF NeedsFlush(TextLens(cur.texts), TextLen(entry.text))
          THEN MergeProvenance(Tail(entries), StartCurrent(entry),
                               FlushProvenance(acc, cur, doc, page), doc, page)
          ELSE MergeProvenance(Tail(entries),
                               [texts |-> Append(cur.texts, entry.text),
                                bbox |-> ExtendBbox(cur.bbox, entry.box),
                                line_bboxes |-> Append(cur.line_bboxes, entry.box)],
                               acc, doc, page)

\* `if not page.text: continue`: "".split("\n") is [""]
PageHasText(page) == page.text_lines # <<"">>

\* index_document: the loop over the pages (every page has coordinates)
RECURSIVE IndexPages(_, _, _, _)
IndexPages(doc, pages, acc, repeat_keys) ==
  IF pages = <<>> THEN acc
  ELSE LET page == Head(pages)
           acc1 == IF ~PageHasText(page) THEN acc
                   ELSE MergeProvenance(PageEntries(page, 0, repeat_keys), NoCurrent,
                                        acc, doc, page)
       IN IndexPages(doc, Tail(pages), acc1, repeat_keys)

\* the records index_document(doc_id, pages) adds
IndexDocumentRecords(doc, pages) ==
  IndexPages(doc, pages, NoAcc, CollectHeaderFooterRepeatKeys(pages)).chunks

\* the records index_ocr_result(doc_id, page_number, chunks) adds: one per
\* non-blank text, with the chunk's own box and no bbox_lines
IndexOcrRecords(doc, page_number, chunks) ==
  {[id |-> OcrChunkId(doc, page_number, i - 1), doc_id |-> doc, page |-> page_number,
    source |-> "ocr", block_id |-> NoBlock, texts |-> <<chunks[i].text>>,
    bbox |-> chunks[i].bbox, line_bboxes |-> <<>>]
     : i \in {j \in 1 .. Len(chunks) : chunks[j].text # ""}}

\* the pages handed to index_document: up to MaxIndexPages pages of one or two
\* lines, with a coordinate per line or with one coordinate only
IndexDoc == "d1"
CoordChoices == {<<Box(30, 300, 15, 30)>>,
                 <<Box(30, 300, 15, 30), Box(9, 240, 120, 36), Box(60, 180, 6, 30)>>}
TextLineChoices == UNION {[1 .. n -> LineTexts] : n \in 1 .. MaxTextLines}
PageTextChoices ==
  UNION {[1 .. n -> TextLineChoices] : n \in MaxIndexPages - 1 .. MaxIndexPages}
PagesOf(texts, coordinates) ==
  [i \in 1 .. Len(texts) |->
     [page_number |-> i, text_lines |-> texts[i], coordinates |-> coordinates]]

\* what the OCR of a page can yield: one long or one short fragment
OcrTexts == {"L", "h"}

InitIndexing ==
  /\ InitIndex
  /\ documents = [d \in Docs |-> NoDoc]
  /\ store = [d \in Docs |-> NoMeta]
  /\ ocr_payload = [d \in Docs |-> {}]
  /\ files = {}
  /\ issued = {}
  /\ ocr_queue = <<>>
  /\ ocr_jobs_by_doc = [d \in Docs |-> {}]
  /\ ocr_cancel_flags = {}
  /\ worker = NoWorker
  /\ InitProc
  /\ \E texts \in PageTextChoices, coordinates \in CoordChoices :
       last = [op |-> "pages", pages |-> PagesOf(texts, coordinates)]

\* rag_engine.index_document(doc_id, pages)
IndexDocumentCall ==
  /\ last.op = "pages"
  /\ collection' = CollectionAdd(collection, IndexDocumentRecords(IndexDoc, last.pages))
  /\ last' = [op |-> "indexed", pages |-> last.pages]
  /\ UNCHANGED <<bm25_cache, retrieved, regVars, ocr_queue, ocr_jobs_by_doc,
                 ocr_cancel_flags, worker>>
  /\ UNCHANGED procVars

\* rag_engine.index_ocr_result(doc_id, page_number, chunks) for a recognized page
IndexOcrResultCall(page_number, text) ==
  /\ last.op = "indexed"
  /\ page_number <= Len(last.pages)
  /\ collection' = CollectionAdd(collection,
                     IndexOcrRecords(IndexDoc, page_number,
                                     <<[text |-> text, bbox |-> Box(30, 300, 600, 30)]>>))
  /\ last' = [op |-> "ocr_indexed", pages |-> last.pages]
  /\ UNCHANGED <<bm25_cache, retrieved, regVars, ocr_queue, ocr_jobs_by_doc,
                 ocr_cancel_flags, worker>>
  /\ UNCHANGED procVars

NextIndex ==
  \/ IndexDocumentCall
  \/ \E page_number \in 1 .. MaxIndexPages, text \in OcrTexts :
       IndexOcrResultCall(page_number, text)

SpecIndex == InitIndexing /\ [][NextIndex]_vars

\* line lengths around the 320-character limit, and pages of up to MaxLines lines
LineLens == {1, 159, 160, 321}
EntryChoices == UNION {[1 .. n -> LineLens] : n \in 0 .. MaxLines}

\* index_document on a page with coordinates
BuildGeometryChunks ==
  /\ last.op = "page_entries"
  /\ last' = [op |-> "geometry_chunks", entries |-> last.entries,
              chunks |-> MergeEntries(last.entries, <<>>, <<>>)]
  /\ UNCHANGED <<ragVars, regVars, ocr_queue, ocr_jobs_by_doc, ocr_cancel_flags, worker>>
  /\ UNCHANGED procVars

\* documents as a caller may hand them to get_consistent_recognized_pages: a
\* status map with or without an entry per page, and derived lists of any age
DocChoices ==
  {[total_pages |-> MaxPages, page_ocr_status |-> m, recognized_pages |-> SortedSeq(r),
    ocr_required_pages |-> SortedSeq(q)] :
     m \in [Pages -> VALID_OCR_STATUS \cup {NoneVal}],
     r \in SUBSET (1 .. MaxPages + 1), q \in SUBSET (1 .. MaxPages + 1)}

\* get_consistent_recognized_pages(doc)
GetConsistentCall ==
  /\ last.op = "doc"
  /\ last' = [op |-> "consistent_pages", doc |-> last.doc,
              result |-> GetConsistentRecognizedPages(last.doc),
              synced |-> SyncOcrSets(last.doc)]
  /\ UNCHANGED <<ragVars, regVars, ocr_queue, ocr_jobs_by_doc, ocr_cancel_flags, worker>>
  /\ UNCHANGED procVars

\* the chunk pages not seen before, in first-occurrence order (the `seen` loop)
RECURSIVE UniquePages(_, _, _)
UniquePages(chunk_pages, seen, pages) ==
  IF chunk_pages = <<>> THEN pages
  ELSE LET p == Head(chunk_pages)
       IN IF p \in seen THEN UniquePages(Tail(chunk_pages), seen, pages)
          ELSE UniquePages(Tail(chunk_pages), seen \cup {p}, Append(pages, p))

\* [p for p in pages if 1 <= p <= total_pages]
RECURSIVE PagesInRange(_, _)
PagesInRange(pages, total_pages) ==
  IF pages = <<>> THEN <<>>
  ELSE LET rest == PagesInRange(Tail(pages), total_pages)
       IN IF 1 <= Head(pages) /\ Head(pages) <= total_pages
          THEN <<Head(pages)>> \o rest ELSE rest

\* the range filter without its `if not pages: pages = [1]`
RangeFilterNoFallback(pages, total_pages) ==
  IF total_pages > 0 THEN PagesInRange(pages, total_pages) ELSE pages

\* the range filter of select_candidate_pages; total_pages is 0 for None
RangeFilter(pages, total_pages) ==
  IF total_pages > 0
  THEN (IF PagesInRange(pages, total_pages) = <<>> THEN <<1>>
        ELSE PagesInRange(pages, total_pages))
  ELSE pages

\* select_candidate_pages(explicit_pages, chunk_pages, max_pages, total_pages);
\* explicit_pages is <<>> for None and for []
SelectCandidatePages(explicit_pages, chunk_pages, max_pages, total_pages) ==
  LET limit == IF max_pages <= 0 THEN 1 ELSE max_pages
      given == IF explicit_pages # <<>> THEN explicit_pages
               ELSE UniquePages(chunk_pages, {}, <<>>)
      pages == IF given = <<>> THEN <<1>> ELSE given
  IN SubSeq(RangeFilter(pages, total_pages), 1,
            Min(limit, Len(RangeFilter(pages, total_pages))))

\* page numbers a caller may pass: one below and one beyond the document
PageArgs == 0 .. MaxPages + 1
SeqsUpTo(S, n) == UNION {[1 .. k -> S] : k \in 0 .. n}
CandidateCalls ==
  [op : {"candidate_args"}, explicit_pages : SeqsUpTo(PageArgs, MaxExplicit),
   chunk_pages : SeqsUpTo(PageArgs, MaxChunkPages), max_pages : -1 .. MaxExplicit + 1,
   total_pages : 0 .. MaxPages]

\* select_candidate_pages applied to the drawn arguments
SelectCandidateCall ==
  /\ last.op = "candidate_args"
  /\ last' = [op |-> "candidate_pages", explicit_pages |-> last.explicit_pages,
              chunk_pages |-> last.chunk_pages, max_pages |-> last.max_pages,
              total_pages |-> last.total_pages,
              result |-> SelectCandidatePages(last.explicit_pages, last.chunk_pages,
                                              last.max_pages, last.total_pages)]
  /\ UNCHANGED <<ragVars, regVars, ocr_queue, ocr_jobs_by_doc, ocr_cancel_flags, worker>>
  /\ UNCHANGED procVars

\* n pages of which the first `count` carry the same short line near their top,
\* the others one long line
RepeatedLinePages(n, count) ==
  [i \in 1 .. n |->
     [page_number |-> i, text_lines |-> IF i <= count THEN <<"h", "x">> ELSE <<"L">>,
      coordinates |-> <<>>]]
RepeatCalls ==
  {r \in [op : {"repeat_args"}, n : 0 .. MaxHfPages, count : 0 .. MaxHfPages] :
     r.count <= r.n}

\* _collect_header_footer_repeat_keys applied to the drawn pages
CollectRepeatKeysCall ==
  /\ last.op = "repeat_args"
  /\ last' = [op |-> "repeat_keys", n |-> last.n, count |-> last.count,
              keys |-> CollectHeaderFooterRepeatKeys(RepeatedLinePages(last.n, last.count))]
  /\ UNCHANGED <<ragVars, regVars, ocr_queue, ocr_jobs_by_doc, ocr_cancel_flags, worker>>
  /\ UNCHANGED procVars

PureInputs ==
  {[op |-> "page_entries", entries |-> e] : e \in EntryChoices}
    \cup {[op |-> "doc", doc |-> doc] : doc \in DocChoices}
    \cup CandidateCalls
    \cup RepeatCalls

InitPure ==
  /\ InitIndex
  /\ documents = [d \in Docs |-> NoDoc]
  /\ store = [d \in Docs |-> NoMeta]
  /\ ocr_payload = [d \in Docs |-> {}]
  /\ files = {}
  /\ issued = {}
  /\ ocr_queue = <<>>
  /\ ocr_jobs_by_doc = [d \in Docs |-> {}]
  /\ ocr_cancel_flags = {}
  /\ worker = NoWorker
  /\ InitProc
  /\ last \in PureInputs

NextPure ==
  \/ BuildGeometryChunks
  \/ GetConsistentCall
  \/ SelectCandidateCall
  \/ CollectRepeatKeysCall

SpecPure == InitPure /\ [][NextPure]_vars

\* ---------------------------------------------------------------- properties
\* pages of the job in flight that the worker has not finished
InFlightPages(d) ==
  IF worker.job.doc_id = d
  THEN {worker.job.pages[i] : i \in worker.idx .. Len(worker.job.pages)}
  ELSE {}

\* number of jobs, queued or in flight, that hold page p of document d
JobsHolding(d, p) ==
  Cardinality({i \in 1 .. Len(ocr_queue) :
                 ocr_queue[i].doc_id = d /\ Contains(ocr_queue[i].pages, p)})
    + (IF p \in InFlightPages(d) THEN 1 ELSE 0)

\* C1: enqueue_ocr_job, when it accepts the request, returns exactly the requested
\* in-range pages whose status is neither recognized nor processing and that are
\* not pending, each once; the same request made again right away returns [] and
\* puts no job on the queue.
C1_IdempotentEnqueue ==
  [][\A d \in UploadIds, pages \in RequestChoices :
       (EnqueueOcrJob(d, pages) /\ last'.code = 200) =>
         /\ SeqToSet(last'.returned) =
              {p \in pages : /\ 1 <= p
                             /\ p <= documents'[d].total_pages
                             /\ documents'[d].page_ocr_status[p]
                                  \notin {"recognized", "processing"}
                             /\ p \notin ocr_jobs_by_doc[d]}
         /\ Len(last'.returned) = Cardinality(SeqToSet(last'.returned))
         /\ (last'.returned = <<>>) = (ocr_queue' = ocr_queue)
         /\ last'.repeat => (last'.returned = <<>> /\ ocr_queue' = ocr_queue)]_vars

\* C1 witness: the same request was made twice in a row and its pages are pending
C1_Witness ==
  /\ last.op = "enqueue"
  /\ last.repeat
  /\ last.requested \cap ocr_jobs_by_doc[last.doc] # {}
  /\ last.returned = <<>>

\* C2: a page of a document is held by at most one job that is queued or in flight.
C2_PageInAtMostOneJob ==
  \A d \in UploadIds, p \in Pages : JobsHolding(d, p) <= 1

\* the pages a cancel dropped from the pending set that the worker had not started
UnstartedAtCancel ==
  last.pending_pages
    \ (IF worker.pc \in {"render", "primary_io", "local_io", "embed_io"}
          /\ worker.job.doc_id = last.doc
       THEN {CurrentPage} ELSE {})

C4_RecognizedPageUntouched ==
  [][(/\ worker.pc = "page"
      /\ worker.idx <= Len(worker.job.pages)
      /\ documents[worker.job.doc_id].present
      /\ documents[worker.job.doc_id].page_ocr_status[CurrentPage] = "recognized"
      /\ RecognizeStart) =>
       (/\ worker'.result = "already_recognized"
        /\ worker'.pc = "page"
        /\ collection' = collection
        /\ bm25_cache' = bm25_cache
        /\ documents'[worker.job.doc_id].page_ocr_status
             = documents[worker.job.doc_id].page_ocr_status
        /\ documents'[worker.job.doc_id].chunk_count
             = documents[worker.job.doc_id].chunk_count
        /\ store' = store
        /\ ocr_payload' = ocr_payload)]_vars

\* C4 witness: the worker called recognize_document_page on a recognized page
C4_Witness ==
  /\ worker.result = "already_recognized"
  /\ worker.pc = "page"
  /\ documents[worker.job.doc_id].present
  /\ documents[worker.job.doc_id].page_ocr_status[worker.job.pages[worker.idx - 1]]
       = "recognized"

\* the status changes the pipeline may make to a page
StatusStep(from, to) ==
  \/ from = to
  \/ <<from, to>> \in {<<"unrecognized", "processing">>, <<"failed", "processing">>,
                       <<"processing", "recognized">>, <<"processing", "failed">>}

C6_StickyFallback == ~(worker.pc = "primary_io" /\ worker.auth_failed)

\* C7: whenever the lexical cache holds an entry for a document, the entry's ids
\* are the ids currently indexed for that document.
C7_CacheFresh ==
  \A d \in Docs : bm25_cache[d].cached => bm25_cache[d].ids = DocIds(collection, d)

\* the non-noise chunks of the collection among the fused candidates of the
\* recorded retrieve call
NonNoiseCandidates ==
  {c \in collection :
     /\ c.id \in SeqToSet(CandidateIds(retrieved.vec, retrieved.bm, retrieved.top_k))
     /\ ~IsLowValueText(c.kind)}

\* C8: with an allowed_pages list every returned chunk is on a listed page; with
\* [] the result is [] and no index is queried; with None no chunk is dropped for
\* its page.
C8_Filtering ==
  retrieved.called =>
    /\ retrieved.allowed.given =>
         \A i \in 1 .. Len(retrieved.chunks) :
           retrieved.chunks[i].page_number \in retrieved.allowed.pages
    /\ (retrieved.allowed.given /\ retrieved.allowed.pages = {}) =>
         (retrieved.chunks = <<>> /\ ~retrieved.queried)
    /\ ~retrieved.allowed.given =>
         Len(retrieved.chunks) = Min(retrieved.top_k, Cardinality(NonNoiseCandidates))

\* C8 witness: a retrieve with a page list returned a chunk while a non-noise
\* candidate on an unlisted page was left out
C8_Witness ==
  /\ retrieved.called
  /\ retrieved.allowed.given
  /\ retrieved.chunks # <<>>
  /\ Len(retrieved.chunks) < retrieved.top_k
  /\ \E c \in NonNoiseCandidates : c.page \notin retrieved.allowed.pages

\* the retrieve calls C9 speaks of
CoverageCall ==
  /\ retrieved.called
  /\ retrieved.coverage
  /\ retrieved.allowed.given
  /\ 1 <= Cardinality(retrieved.allowed.pages)
  /\ Cardinality(retrieved.allowed.pages) <= coverage_max_pages
  /\ retrieved.top_k >= Cardinality(retrieved.allowed.pages)

Contributes(p) ==
  \E i \in 1 .. Len(retrieved.chunks) : retrieved.chunks[i].page_number = p

C10_BlockIds ==
  /\ \A c \in collection : c.block_id # NoBlock
  /\ \A c1, c2 \in collection :
       (c1 # c2 /\ c1.doc_id = c2.doc_id) =>
         (c1.block_id # c2.block_id /\ c1.id # c2.id)

\* C11: every chunk of the geometry path merges at most 8 lines, and its text is
\* at most 320 characters long unless it is a single line longer than that.
C11_ChunkSizeBound ==
  last.op = "geometry_chunks" =>
    \A i \in 1 .. Len(last.chunks) :
      /\ Len(last.chunks[i]) <= coord_chunk_max_lines
      /\ \/ ChunkTextLen(last.chunks[i]) <= coord_chunk_chars
         \/ Len(last.chunks[i]) = 1 /\ last.chunks[i][1] > coord_chunk_chars

\* C11 witness: a page gave a chunk of exactly 8 lines, flushed by the line
\* count, and a chunk that is one over-long line
C11_Witness ==
  /\ last.op = "geometry_chunks"
  /\ Len(last.entries) = MaxLines
  /\ \E i \in 1 .. Len(last.chunks) :
       /\ Len(last.chunks[i]) = coord_chunk_max_lines
       /\ ChunkTextLen(last.chunks[i]) < coord_chunk_chars
  /\ \E i \in 1 .. Len(last.chunks) :
       Len(last.chunks[i]) = 1 /\ last.chunks[i][1] > coord_chunk_chars

\* the document was uploaded and then deleted
Deleted(d) == d \in issued /\ ~store[d].present

\* a recognize_document_page call on document d is between its two locked sections
RecognitionInFlight(d) ==
  /\ worker.job.doc_id = d
  /\ worker.pc \in {"render", "primary_io", "local_io", "embed_io"}

\* C12: once a document is deleted and no recognition of it is in flight, the
\* index holds no chunk of it, the lexical cache no entry, the registry no record,
\* and its pending-page set is empty.
C12_DeleteCascade ==
  \A d \in UploadIds :
    (Deleted(d) /\ ~RecognitionInFlight(d)) =>
      /\ DocChunks(collection, d) = {}
      /\ ~bm25_cache[d].cached
      /\ ~documents[d].present
      /\ ocr_jobs_by_doc[d] = {}

\* C16: get_consistent_recognized_pages returns exactly the pages whose entry in
\* the status map is recognized, in ascending order, whatever the derived lists held.
C16_ConsistentRecognizedPages ==
  last.op = "consistent_pages" =>
    last.result =
      SortedSeq({p \in 1 .. last.doc.total_pages :
                   last.synced.page_ocr_status[p] = "recognized"})

\* C19: a retrieve call with a non-empty allowed_pages list that finds nothing
\* never returns what a call with an empty allowed_pages list returns.
C19_EmptyReasonDistinct ==
  (retrieved.called /\ retrieved.allowed.given /\ retrieved.allowed.pages # {}) =>
    retrieved.chunks # NoAllowedPagesResult

\* C20: a retrieve result has at most top_k chunks, no chunk id twice, and
\* ref ids ref-1 .. ref-N in list order.
C20_ResultShape ==
  retrieved.called =>
    /\ Len(retrieved.chunks) <= retrieved.top_k
    /\ \A i, j \in 1 .. Len(retrieved.chunks) :
         i # j => retrieved.chunks[i].id # retrieved.chunks[j].id
    /\ \A i \in 1 .. Len(retrieved.chunks) : retrieved.chunks[i].ref_id = i

\* C20 witness: a coverage call on one allowed page returned two chunks, the
\* second one taken by the fill loop after it skipped the page's pick
C20_Witness ==
  /\ retrieved.called
  /\ CoverageEnabled(retrieved.allowed, retrieved.coverage)
  /\ Cardinality(retrieved.allowed.pages) = 1
  /\ retrieved.top_k = 2
  /\ Len(retrieved.chunks) = 2
  /\ retrieved.chunks[2].ref_id = 2

\* the OCR chunks indexed for a page
PageOcrChunks(coll, d, p) ==
  {c \in coll : c.doc_id = d /\ c.page = p /\ c.source = "ocr"}

\* C13: the worker is never suspended inside index_ocr_result, with the document
\* lock free, after the page's previous OCR chunks were dropped and before the
\* new ones are added.
C13_AtomicReplacement ==
  [][(worker.pc # "embed_io" /\ worker'.pc = "embed_io") =>
       (PageOcrChunks(collection, worker'.job.doc_id, worker'.job.pages[worker'.idx]) # {}
          => PageOcrChunks(collection', worker'.job.doc_id,
                           worker'.job.pages[worker'.idx]) # {})]_vars

C17_Ordering ==
  [][/\ (ocr_queue' # ocr_queue) =>
          \/ /\ Len(ocr_queue') = Len(ocr_queue) + 1
             /\ SubSeq(ocr_queue', 1, Len(ocr_queue)) = ocr_queue
          \/ /\ ocr_queue # <<>>
             /\ ocr_queue' = Tail(ocr_queue)
             /\ worker.pc \in {"wait", "take"}
             /\ worker.job = NoJob
             /\ worker'.job \in {Head(ocr_queue), NoJob}
     /\ (worker'.job # NoJob /\ worker.job = NoJob) =>
          (ocr_queue # <<>> /\ worker'.job = Head(ocr_queue) /\ worker'.idx = 1)
     /\ (worker.job # NoJob /\ worker'.job # NoJob) =>
          /\ worker'.job = worker.job
          /\ worker'.idx \in {worker.idx, worker.idx + 1}
          /\ (worker'.idx = worker.idx + 1) => worker'.pc = "page"
     /\ (worker'.pc = "render" /\ worker.pc # "render") =>
          (worker.pc = "page" /\ worker'.idx = worker.idx)]_vars

\* C17 witness: the worker has started the second page of a job while a job
\* queued later waits
C17_Witness ==
  /\ worker.pc = "render"
  /\ Len(worker.job.pages) = 2
  /\ worker.idx = 2
  /\ ocr_queue # <<>>

C17_WitnessAcrossDocs ==
  /\ C17_Witness
  /\ ocr_queue[1].doc_id # worker.job.doc_id

\* C14: with the worker scheduled fairly, whatever fails for one document, the
\* worker keeps taking jobs as long as jobs are queued, a queued job of the other
\* document is eventually taken, and the loop gets past each of its pages.
C14_WorkerIsolation ==
  /\ ([]<>(ocr_queue = <<>>)) \/ ([]<><<WorkerGet>>_vars)
  /\ (\E i \in 1 .. Len(ocr_queue) : ocr_queue[i].doc_id = OtherDoc)
       ~> (worker.job.doc_id = OtherDoc /\ worker.pc = "page" /\ worker.idx = 1)
  /\ \A k \in Pages :
       (worker.job.doc_id = OtherDoc /\ worker.pc = "page" /\ worker.idx = k
          /\ k <= Len(worker.job.pages))
         ~> (worker.job.doc_id = OtherDoc /\ worker.idx = k + 1 /\ worker.result # NoneVal)

\* C14 witness: a page of the first document failed, that document is gone, and
\* the worker is past the first page of a job of the other document
C14_Witness ==
  /\ ~documents[FailingDoc].present
  /\ store[FailingDoc].present = FALSE
  /\ FailingDoc \in issued
  /\ worker.job.doc_id = OtherDoc
  /\ worker.idx = 2
  /\ worker.result = "failed"

\* the first occurrences of a list's elements, as positions
FirstOccurrences(s) == {i \in 1 .. Len(s) : \A j \in 1 .. i - 1 : s[j] # s[i]}

\* r is the list of s's elements at the positions in keep, in order, cut to n
IsPrefixOfKept(r, s, keep, n) ==
  /\ Len(r) = Min(n, Cardinality(keep))
  /\ \E f \in [1 .. Len(r) -> keep] :
       /\ \A i \in 1 .. Len(r) : r[i] = s[f[i]]
       /\ \A i \in 1 .. Len(r) : Cardinality({k \in keep : k < f[i]}) = i - 1

\* C21: select_candidate_pages returns a non-empty list of at most
\* max(max_pages, 1) pages, all in 1..total_pages when total_pages > 0: the
\* explicit pages in their order when any are given, otherwise the distinct chunk
\* pages in first-occurrence order, out-of-range pages left out, and [1] when
\* no page is left.
C21_CandidatePages ==
  last.op = "candidate_pages" =>
    LET r == last.result
        limit == Max(last.max_pages, 1)
        source == IF last.explicit_pages # <<>> THEN last.explicit_pages
                  ELSE last.chunk_pages
        occurrences == IF last.explicit_pages # <<>> THEN 1 .. Len(source)
                       ELSE FirstOccurrences(source)
        keep == {i \in occurrences :
                   last.total_pages > 0 =>
                     (1 <= source[i] /\ source[i] <= last.total_pages)}
    IN /\ r # <<>>
       /\ Len(r) <= limit
       /\ last.total_pages > 0 =>
            \A i \in 1 .. Len(r) : 1 <= r[i] /\ r[i] <= last.total_pages
       /\ IF keep = {} THEN r = <<1>> ELSE IsPrefixOfKept(r, source, keep, limit)

\* C21 witness: chunk pages with a repeat and an out-of-range page, cut to two
C21_Witness ==
  /\ last.op = "candidate_pages"
  /\ last.explicit_pages = <<>>
  /\ last.chunk_pages = <<2, 2, MaxPages + 1>>
  /\ last.total_pages = MaxPages
  /\ last.result = <<2>>

\* C21 witness of the fallback: every explicit page is out of range
C21_WitnessFallback ==
  /\ last.op = "candidate_pages"
  /\ last.explicit_pages = <<MaxPages + 1, 0>>
  /\ last.chunk_pages = <<2>>
  /\ last.total_pages = MaxPages
  /\ last.result = <<1>>

\* calls inside the provider or indexing phase of a page
InIoPhase(d, page) ==
  {c \in Callers : calls[c].pc \in {"ocr_io", "embed_io"}
                     /\ calls[c].doc_id = d /\ calls[c].page = page}

\* C22: at every point where a recognize_document_page call is suspended no call
\* holds the document's lock; a call inside the provider or indexing phase has
\* left its page marked processing; and a call leaves that phase only into the
\* commit of recognized or failed (or finds the document gone).
C22_ThreePhaseCommit ==
  /\ \A d \in Docs : document_locks[d] = NoneVal
  /\ \A c \in Callers :
       (calls[c].pc \in {"ocr_io", "embed_io"} /\ documents[calls[c].doc_id].present) =>
         documents[calls[c].doc_id].page_ocr_status[calls[c].page] = "processing"
  /\ \A c \in Callers :
       (calls[c].pc = "done" /\ calls[c].provider_calls > 0) =>
         calls[c].result \in {"recognized", "failed", "not_found"}

\* C22 witness: a call is suspended at the embedding call while another call
\* is answered inside the first lock section
C22_Witness ==
  \E c1, c2 \in Callers :
    /\ calls[c1].pc = "embed_io"
    /\ calls[c2].pc = "done"
    /\ calls[c2].doc_id = calls[c1].doc_id
    /\ calls[c2].result = "processing"

C24_SingleConsumer == Cardinality(LiveTasks) <= 1

\* C25: while a document's cancel flag is set (every job of it then in the queue
\* or in flight was queued before the cancel), no page of its in-flight job is
\* started, and each of its queued jobs either stays queued with the flag still
\* set or is taken by the worker and dropped; the in-flight job does not go on
\* with the flag gone.
C25_CancelDurable ==
  [][\A d \in UploadIds :
       d \in ocr_cancel_flags =>
         /\ (worker.pc = "page" /\ worker'.pc = "render") => worker.job.doc_id # d
         /\ (worker.job.doc_id = d /\ worker'.job = worker.job) => d \in ocr_cancel_flags'
         /\ \A i \in 1 .. Len(ocr_queue) :
              ocr_queue[i].doc_id = d =>
                \/ /\ i <= Len(ocr_queue')
                   /\ ocr_queue'[i] = ocr_queue[i]
                   /\ d \in ocr_cancel_flags'
                \/ /\ i = 1
                   /\ ocr_queue' = Tail(ocr_queue)
                   /\ worker'.job = NoJob]_vars

\* a step in which page p of document d gets the status failed
BecomesFailed(d, p) ==
  /\ documents[d].present /\ documents'[d].present
  /\ documents[d].page_ocr_status[p] # "failed"
  /\ documents'[d].page_ocr_status[p] = "failed"

\* C26: for each page the local provider is called exactly when the primary
\* provider is not configured, raised, or returned nothing (otherwise the primary
\* provider's fragments are indexed); a page becomes failed only in a step of the
\* worker on that page when no provider yielded fragments or indexing left no
\* chunk of the page, and then the worker has counted the failure and goes on
\* with its loop: it never ends.
C26_PerPageFallback ==
  [][/\ worker'.pc # "ended"
     /\ (worker.pc = "render" /\ worker'.pc = "primary_io")
          => documents[worker.job.doc_id].baidu
     /\ (worker.pc # "local_io" /\ worker'.pc = "local_io")
          => \/ worker.pc = "render" /\ ~documents[worker.job.doc_id].baidu
             \/ worker.pc = "primary_io"
     /\ (worker.pc = "primary_io" /\ worker' # worker)
          => \/ worker'.pc = "local_io" /\ worker'.frags = <<>>
             \/ /\ worker'.pc = "embed_io"
                /\ worker'.provider = "baidu"
                /\ IndexOcrChunks(worker.job.doc_id, CurrentPage, worker'.frags) # {}
     /\ \A d \in UploadIds, p \in Pages :
          BecomesFailed(d, p)
            => /\ worker.job.doc_id = d
               /\ CurrentPage = p
               /\ worker'.pc = "page"
               /\ worker'.idx = worker.idx + 1
               /\ worker'.result = "failed"
               /\ \/ worker.pc \in {"render", "local_io"}
                  \/ PageOcrChunks(collection', d, p) = {}]_vars

\* C26 witness: the primary provider is configured and yielded nothing for a
\* page, the local provider was called for it and yielded nothing either, and the
\* page is failed while the worker goes on
C26_Witness ==
  \E d \in UploadIds, p \in Pages :
    /\ documents[d].present
    /\ documents[d].baidu
    /\ documents[d].page_ocr_status[p] = "failed"
    /\ worker.job.doc_id = d
    /\ worker.pc = "page"
    /\ worker.result = "failed"
    /\ worker.auth_failed
    /\ worker.job.pages = <<p>>
    /\ worker.idx = 2
    /\ PageOcrChunks(collection, d, p) = {}

\* a step after which document d is in memory as _load_doc_meta_into_memory made
\* it: the start of the process, or the first request for a document not in memory
Hydrates(d) ==
  /\ documents'[d].present
  /\ \/ last'.op = "restart"
     \/ ~documents[d].present /\ last'.op \in {"enqueue", "cancel"}

\* C27: after a document is hydrated, every page with an entry in the persisted
\* recognition-result payload has the status recognized in memory, is not among
\* the required pages, and is not queued by enqueue_ocr_job.
C27_HydrationReconciles ==
  [][\A d \in UploadIds :
       Hydrates(d) =>
         \A p \in ocr_payload'[d] \cap (1 .. documents'[d].total_pages) :
           /\ documents'[d].page_ocr_status[p] = "recognized"
           /\ p \notin SeqToSet(documents'[d].ocr_required_pages)
           /\ QueuedPages(EnsureStatusMap(documents'[d]), {}, {p}) = <<>>]_vars

\* a step that removes the temporary PDF of document d while its record stays
TempPdfRemoved(d) ==
  /\ documents[d].present /\ documents'[d].present
  /\ ~documents[d].keep_pdf
  /\ d \in files /\ d \notin files'

\* C28: the temporary PDF of a document with keep_pdf false is not removed while
\* a job of that document is queued or another job of it is in flight; the job
\* the worker is finishing in the removing step is over after it.
C28_DeferredCleanup ==
  [][\A d \in UploadIds :
       TempPdfRemoved(d) =>
         /\ \A i \in 1 .. Len(ocr_queue') : ocr_queue'[i].doc_id # d
         /\ worker'.job.doc_id # d]_vars

\* a step of cancel_doc_ocr(d) that answered 200
CancelStep(d) == last'.op = "cancel" /\ last'.doc = d /\ last'.code = 200

\* C29: a cancel request for a document changes no page status, in memory or
\* persisted, removes no indexed chunk, leaves the queue as it is, and leaves the
\* pending pages and the cancel flag of every other document as they are; the
\* recognized pages stay recognized.
C29_CancelFrame ==
  [][\A d \in Docs :
       CancelStep(d) =>
         /\ store' = store
         /\ collection' = collection
         /\ ocr_queue' = ocr_queue
         /\ \A e \in Docs :
              /\ documents[e].present
                   => /\ documents'[e].present
                      /\ documents'[e].page_ocr_status = documents[e].page_ocr_status
                      /\ documents'[e].recognized_pages = documents[e].recognized_pages
              /\ e # d => /\ ocr_jobs_by_doc'[e] = ocr_jobs_by_doc[e]
                          /\ (e \in ocr_cancel_flags') = (e \in ocr_cancel_flags)
                          /\ documents'[e] = documents[e]]_vars

\* C29 witness: a cancel of one document was answered while it had a recognized
\* page with indexed chunks and pages pending, and the other document has
\* pending pages and a queued job
C29_Witness ==
  /\ last.op = "cancel" /\ last.code = 200 /\ last.doc = FailingDoc
  /\ last.pending_pages # {}
  /\ documents[FailingDoc].present
  /\ \E p \in Pages :
       /\ documents[FailingDoc].page_ocr_status[p] = "recognized"
       /\ PageOcrChunks(collection, FailingDoc, p) # {}
  /\ ocr_jobs_by_doc[OtherDoc] # {}
  /\ \E i \in 1 .. Len(ocr_queue) : ocr_queue[i].doc_id = OtherDoc
  /\ FailingDoc \in ocr_cancel_flags

\* 0-based rank of id in list s
RankIn(s, id) == IndexOf(s, id) - 1

\* 1 / (60 + rank + 1) for a list that holds id, 0 for one that does not, as <<num, den>>
ListShare(s, id) == IF Contains(s, id) THEN <<1, 60 + RankIn(s, id) + 1>> ELSE <<0, 1>>

\* the sum of the two lists' shares of id, as <<num, den>>
SumOfShares(vec, bm, id) ==
  LET v == ListShare(vec, id)
      b == ListShare(bm, id)
  IN <<v[1] * b[2] + b[1] * v[2], v[2] * b[2]>>

\* x >= y for fractions with positive denominators
AtLeast(x, y) == x[1] * y[2] >= y[1] * x[2]

\* the ids of the indexed non-noise chunks that one of the two lists holds
ListedNonNoiseIds(coll, vec, bm) ==
  {c.id : c \in {e \in coll : /\ (Contains(vec, e.id) \/ Contains(bm, e.id))
                               /\ ~IsLowValueText(e.kind)}}

\* the retrieve calls C30 speaks of: both indexes queried, no page list, coverage off
RankFusionCall ==
  /\ retrieved.called /\ retrieved.queried
  /\ ~retrieved.allowed.given
  /\ ~retrieved.coverage

\* C30: with no page restriction and coverage off, retrieve returns the first top_k
\* non-noise candidates in non-increasing order of the fused score (the sum over
\* the two lists of 1/(60 + rank + 1)): no candidate left out scores above a
\* returned one, and a candidate present in both lists at ranks r1, r2 comes
\* before every candidate of one list only whose rank is at least min(r1, r2).
C30_RankFusion ==
  RankFusionCall =>
    LET vec == retrieved.vec
        bm == retrieved.bm
        res == retrieved.chunks
        cands == ListedNonNoiseIds(collection, vec, bm)
        score(id) == SumOfShares(vec, bm, id)
        pos(id) == CHOOSE i \in 1 .. Len(res) : res[i].id = id
        returned == {res[i].id : i \in 1 .. Len(res)}
    IN /\ Len(res) = Min(retrieved.top_k, Cardinality(cands))
       /\ returned \subseteq cands
       /\ \A i, j \in 1 .. Len(res) : i < j => AtLeast(score(res[i].id), score(res[j].id))
       /\ \A x \in cands \ returned, y \in returned : AtLeast(score(y), score(x))
       /\ \A x, y \in cands :
            (/\ Contains(vec, x) /\ Contains(bm, x)
             /\ Contains(vec, y) # Contains(bm, y)
             /\ RankIn(IF Contains(vec, y) THEN vec ELSE bm, y)
                  >= Min(RankIn(vec, x), RankIn(bm, x))
             /\ y \in returned)
            => (x \in returned /\ pos(x) < pos(y))

\* C30 witness: a chunk second in the vector list and first in the lexical list
\* is returned before the chunk that is first in the vector list only
C30_Witness ==
  /\ RankFusionCall
  /\ Len(retrieved.chunks) = 2
  /\ Len(retrieved.vec) >= 2
  /\ Len(retrieved.bm) >= 1
  /\ retrieved.chunks[1].id = retrieved.vec[2]
  /\ retrieved.chunks[1].id = retrieved.bm[1]
  /\ retrieved.chunks[2].id = retrieved.vec[1]
  /\ ~Contains(retrieved.bm, retrieved.vec[1])

\* the lines of a page that the noise and header/footer filters keep, each with
\* the box of its own position on the page
KeptLines(pages, i) ==
  LET page == pages[i]
      n == Len(page.text_lines)
      repeated == CollectHeaderFooterRepeatKeys(pages)
      kept == {k \in 1 .. n : /\ ~IsLowValueLine(page.text_lines[k])
                               /\ NormalizeForDedup(page.text_lines[k]) \notin repeated}
  IN [j \in 1 .. Cardinality(kept) |->
        LET k == CHOOSE k \in kept : Cardinality({m \in kept : m < k}) = j - 1
        IN [text |-> page.text_lines[k],
            box |-> IF k <= Len(page.coordinates) THEN page.coordinates[k]
                    ELSE Box(150, (2100 * (n - (k - 1))) \div n, 1500, 90)]]

\* the chunk's segments with their boxes are lines from..from+n-1 of the kept lines
IsRunOfKept(chunk, kept) ==
  \E from \in 1 .. Len(kept) :
    /\ from + Len(chunk.texts) - 1 <= Len(kept)
    /\ \A i \in 1 .. Len(chunk.texts) :
         /\ chunk.texts[i] = kept[from + i - 1].text
         /\ chunk.line_bboxes[i] = kept[from + i - 1].box

\* the smallest value of f over 1..n, and the largest
MinOver(f, n) == CHOOSE v \in {f[i] : i \in 1 .. n} : \A i \in 1 .. n : v <= f[i]
MaxOver(f, n) == CHOOSE v \in {f[i] : i \in 1 .. n} : \A i \in 1 .. n : v >= f[i]

\* C31: every chunk of the geometry path stores one line box per segment of its
\* content, in the segments' order, each the box of that line on the page; its
\* envelope is (min x, min y, max x+w - min x, max y+h - min y) over those boxes;
\* lines dropped by the noise or header/footer filter give no segment and no box.
C31_LineProvenance ==
  last.op \in {"indexed", "ocr_indexed"} =>
    \A c \in {r \in collection : r.source = "native"} :
      LET n == Len(c.texts)
          b == c.line_bboxes
      IN /\ n >= 1
         /\ Len(b) = n
         /\ IsRunOfKept(c, KeptLines(last.pages, c.page))
         /\ c.bbox.x = MinOver([i \in 1 .. n |-> b[i].x], n)
         /\ c.bbox.y = MinOver([i \in 1 .. n |-> b[i].y], n)
         /\ c.bbox.x + c.bbox.w = MaxOver([i \in 1 .. n |-> b[i].x + b[i].w], n)
         /\ c.bbox.y + c.bbox.h = MaxOver([i \in 1 .. n |-> b[i].y + b[i].h], n)

\* C31 witness: one page gave a chunk of two segments whose envelope starts left
\* of its first line's box, and a page whose first line is noise gave a chunk
\* that holds the second line with the second coordinate
C31_Witness ==
  /\ last.op = "indexed"
  /\ \E c \in collection :
       /\ Len(c.texts) = 2
       /\ c.bbox.x < c.line_bboxes[1].x
  /\ \E c \in collection :
       /\ Len(c.texts) = 1
       /\ last.pages[c.page].text_lines[1] = "x"
       /\ Len(last.pages[c.page].coordinates) >= 2
       /\ c.line_bboxes[1] = last.pages[c.page].coordinates[2]

\* C32: a sampled line is blacklisted only if it occurs on at least 3 pages and
\* on at least 35% of the n pages (count * 100 >= 35 * n); fewer than 3 pages
\* blacklist nothing.
C32_BlacklistThreshold ==
  last.op = "repeat_keys" =>
    /\ last.n < 3 => last.keys = {}
    /\ \A k \in last.keys :
         LET count == IF k = "h" THEN last.count ELSE last.n - last.count
         IN count >= 3 /\ count * 100 >= 35 * last.n

\* C33: among the chunks indexed for one document, by index_document or later by
\* index_ocr_result, no two chunks whose normalized text is at least 80
\* characters long have the same normalized text.
C33_CrossPageDedup ==
  last.op \in {"indexed", "ocr_indexed"} =>
    \A c1, c2 \in collection :
      (/\ c1 # c2
       /\ c1.doc_id = c2.doc_id
       /\ NormalizedLen(c1.texts) >= 80
       /\ NormalizedLen(c2.texts) >= 80)
      => NormalizeChunk(c1.texts) # NormalizeChunk(c2.texts)

\* C34: for every document in memory, recognized_pages and ocr_required_pages
\* are disjoint, together they are the pages 1..total_pages, and a page is in
\* recognized_pages exactly when its status is recognized.
C34_DerivedSetPartition ==
  \A d \in UploadIds :
    documents[d].present =>
      LET doc == documents[d]
          recognized == SeqToSet(doc.recognized_pages)
          required == SeqToSet(doc.ocr_required_pages)
      IN /\ recognized \cap required = {}
         /\ recognized \cup required = 1 .. doc.total_pages
         /\ \A p \in 1 .. doc.total_pages :
              (p \in recognized) = (doc.page_ocr_status[p] = "recognized")

\* C35: unless the process keeps being restarted for ever, a page whose status
\* is "processing" eventually has the status "recognized" or "failed" (or its
\* document is deleted), also after a stop of the worker task in the middle of
\* the page followed by a restart of the process that reloads the stored record.
C35_NoStuckProcessing ==
  \/ []<><<Restart \/ CrashInCommit>>_vars
  \/ \A d \in UploadIds, p \in Pages :
       (documents[d].present /\ p <= documents[d].total_pages
          /\ documents[d].page_ocr_status[p] = "processing")
         ~> (\/ ~store[d].present
             \/ /\ documents[d].present
                /\ p <= documents[d].total_pages
                /\ documents[d].page_ocr_status[p] \in {"recognized", "failed"})

\* C36: an enqueue_ocr_job call that queues no page (it returns []) leaves the
\* cancel flags, the pending pages and the job queue as they were; it does not
\* take back a cancellation requested earlier for the document.
C36_NoOpEnqueueFrame ==
  [][\A d \in UploadIds, pages \in RequestChoices :
       (EnqueueOcrJob(d, pages) /\ last'.code = 200 /\ last'.returned = <<>>)
         => /\ ocr_cancel_flags' = ocr_cancel_flags
            /\ ocr_jobs_by_doc' = ocr_jobs_by_doc
            /\ ocr_queue' = ocr_queue]_vars

\* C37 (first part): with the worker scheduled fairly, a page in the pending set
\* of a document is eventually out of it.
C37_PendingDrains ==
  \A d \in Docs, p \in Pages :
    (p \in ocr_jobs_by_doc[d]) ~> (p \notin ocr_jobs_by_doc[d])

\* a job waiting in the queue lists page p of document d
QueuedFor(queue, d, p) ==
  \E i \in 1 .. Len(queue) : queue[i].doc_id = d /\ p \in SeqToSet(queue[i].pages)

\* C37: the worker removes a page from the pending set of a document only on
\* behalf of the job that added it: when a step of the worker removes the page, no
\* job enqueued later, still waiting in the queue, lists that page.
C37_ReleaseByOwner ==
  [][\A d \in Docs, p \in Pages :
       (worker' # worker /\ p \in ocr_jobs_by_doc[d] /\ p \notin ocr_jobs_by_doc'[d])
         => ~QueuedFor(ocr_queue', d, p)]_vars

\* C38: with the worker scheduled fairly and the process never restarted, the
\* stored status of an uploaded document does not stay "processing" for ever: it
\* becomes "completed" or "failed" (or the document is deleted), also when the
\* job queued by a full-OCR upload is cancelled before its first page.
C38_StatusSettles ==
  \A d \in UploadIds :
    (store[d].present /\ store[d].status = "processing")
      ~> (~store[d].present \/ store[d].status \in {"completed", "failed"})

\* C39: an upload of content whose sha256 is that of a stored document never
\* schedules process_document_async for that document again, whatever the stored
\* status, so the document is not indexed a second time and its record in memory
\* is not rebuilt; for a completed document the index, the queue, the pending
\* pages and the cancel flags are left as they are.
C39_UploadDedup ==
  [][\A d \in UploadIds, ocr_mode \in {"manual", "full"}, keep_pdf \in BOOLEAN :
       UploadAgain(d, ocr_mode, keep_pdf)
         => /\ ~last'.scheduled
            /\ collection' = collection
            /\ ocr_queue' = ocr_queue
            /\ ocr_jobs_by_doc' = ocr_jobs_by_doc
            /\ ocr_cancel_flags' = ocr_cancel_flags]_vars
====
